---- MODULE Spec2Model ----
(***************************************************************************)
(* k8flex: the alert-processing pipeline (internal/processor/alert.go),    *)
(* the feedback store (pkg/feedback/manager.go), the classifier's          *)
(* post-processing (pkg/llm/openai.go) and the chat notifier's dispatch    *)
(* (pkg/slack/client.go).                                                  *)
(*                                                                         *)
(* Handles (Slack message timestamps) are naturals, 0 standing for the     *)
(* empty string.  Texts sent to chat are records naming their header, the  *)
(* analysis they carry and whether the feedback instructions follow.       *)
(***************************************************************************)
EXTENDS Integers, Sequences, FiniteSets, TLC

\* ------------------------------------------------------------------ bounds
MaxChunks == 21
MaxClock == 36
MaxStore == 3
MaxManual == 1
MaxPayload == 2
MaxRows == 3
MaxResults == 2
MaxLimit == 3
MaxSimilar == 1
MaxRawLen == 3
MaxReactions == 2
HoursPerStep == 12

\* ------------------------------------------------------- program constants
PushEvery == 10
ExpiryHours == 24
FeedbackLimit == 1

\* The ProcessAlert tasks that run, and the alerts they may be given.
Alerts == {1}
AlertNames == {"X", "Y"}
InboundNames == {"X"}
Namespaces == {"", "prod"}
SlackModes == {"none", "webhook", "bot", "both"}

VARIABLES
    slackMode,        \* which of webhookURL / botToken+channelID is configured
    kbEnabled,        \* p.knowledgeBase != nil
    proc,             \* one ProcessAlert task per alert: its locals and position
    calls,            \* per alert, the external calls ProcessAlert has made
    registered,       \* per alert, the keys storePendingFeedback was called with
    pendingFeedback,  \* the registry: analysis message TS -> PendingFeedback
    feedbacks,        \* Manager.store.Feedbacks
    disk,             \* the feedback file as last written by save()
    checker,          \* the reactionChecker goroutine: position and locals
    rcalls,           \* the external calls of the current checkPendingReactions pass
    now,              \* the wall clock, in hours
    nextTS,           \* the next message timestamp Slack hands out
    fbQuery,          \* the GetRelevantFeedback call made on the store as it is
    fbResult,         \* its result, as positions in Manager.store.Feedbacks
    kb,               \* the rows of the alert_cases table
    pendingMutex,     \* p.pendingMutex: "free", or "read" while RLock is held
    manual,           \* the last RecordManualFeedback call and what it returned
    kbQuery,          \* the last FindSimilar call made on the table, with its result
    app,              \* main(): how far startup got, and what it met on the way
    requests,         \* the webhook requests answered so far, and the last exchange
    tasks,            \* the goroutines HandleWebhook started, each with its alerts
    fbCall,           \* the last call made on the Manager directly, and its result
    kbCall            \* the last Store made on the KnowledgeBase directly

vars == << slackMode, kbEnabled, proc, calls, registered, pendingFeedback,
           feedbacks, disk, checker, rcalls, now, nextTS, fbQuery, fbResult,
           kb, pendingMutex, manual, kbQuery, app, requests, tasks, fbCall,
           kbCall >>

\* What the processor's own steps never touch.
served == << app, requests, tasks >>
apart == << manual, kbQuery, served, fbCall, kbCall >>

\* ------------------------------------------------------------------ helpers
Min(x, y) == IF x < y THEN x ELSE y

Range(s) == { s[i] : i \in 1..Len(s) }

IndexOf(s, c) ==
    IF \E i \in 1..Len(s) : s[i] = c
    THEN CHOOSE i \in 1..Len(s) : s[i] = c /\ \A j \in 1..(i - 1) : s[j] # c
    ELSE 0

Orders(S) ==
    { f \in [1..Cardinality(S) -> S] :
        \A i, j \in 1..Cardinality(S) : i # j => f[i] # f[j] }

\* ------------------------------------- pkg/llm/openai.go, CategorizeAlert
\* Strings the classifier handles are sequences of one-character strings.
CatCpu == << "c", "p", "u" >>
CatHpa == << "h", "p", "a" >>
CatUnknown == << "u", "n", "k", "n", "o", "w", "n" >>

validCategories ==
    { << "p", "o", "d", "-", "c", "r", "a", "s", "h" >>,
      << "p", "o", "d", "-", "r", "e", "s", "t", "a", "r", "t" >>,
      << "m", "e", "m", "o", "r", "y" >>,
      CatCpu,
      << "d", "i", "s", "k" >>,
      << "n", "e", "t", "w", "o", "r", "k" >>,
      << "s", "e", "r", "v", "i", "c", "e" >>,
      CatHpa,
      << "n", "o", "d", "e" >>,
      << "d", "e", "p", "l", "o", "y", "m", "e", "n", "t" >>,
      CatUnknown }

Whitespace == { " ", "\n", "\t" }

RECURSIVE TrimLeft(_)
TrimLeft(s) ==
    IF s # << >> /\ Head(s) \in Whitespace THEN TrimLeft(Tail(s)) ELSE s

RECURSIVE TrimRight(_)
TrimRight(s) ==
    IF s # << >> /\ s[Len(s)] \in Whitespace
    THEN TrimRight(SubSeq(s, 1, Len(s) - 1)) ELSE s

TrimSpace(s) == TrimRight(TrimLeft(s))

LowerOf(c) ==
    CASE c = "C" -> "c"
      [] c = "P" -> "p"
      [] c = "U" -> "u"
      [] c = "H" -> "h"
      [] c = "A" -> "a"
      [] OTHER -> c

ToLower(s) == [i \in 1..Len(s) |-> LowerOf(s[i])]

\* category[:idx] when strings.Index finds sep, then TrimSpace; else unchanged.
CutAt(s, sep) ==
    IF IndexOf(s, sep) # 0
    THEN TrimSpace(SubSeq(s, 1, IndexOf(s, sep) - 1))
    ELSE s

CategorizeAlert_Unvalidated(content) ==
    CutAt(CutAt(ToLower(TrimSpace(content)), "\n"), ":")

\* The clean-up and validation of the model's answer (lines 143-172).
CategorizeAlert(content) ==
    LET category == CutAt(CutAt(ToLower(TrimSpace(content)), "\n"), ":")
    IN  IF category \in validCategories THEN category ELSE CatUnknown

\* What the language model may answer: every string of up to MaxRawLen
\* characters over a small alphabet, and some longer answers.
RawAlphabet == { "c", "p", "u", "C", " ", "\n", ":" }

RECURSIVE RawUpTo(_)
RawUpTo(n) ==
    IF n = 0 THEN { << >> }
    ELSE RawUpTo(n - 1) \cup
         { Append(s, c) : s \in { t \in RawUpTo(n - 1) : Len(t) = n - 1 },
                          c \in RawAlphabet }

RawAnswers ==
    RawUpTo(MaxRawLen) \cup
    { << " ", "C", "P", "U", "\n", "h", "p", "a" >>,
      << "c", "P", "u", " ", ":", " ", "h", "p", "a" >>,
      << "h", "p", "a", " ", "c", "p", "u" >>,
      << "b", "a", "d" >> }

\* ------------------------------------------------- pkg/feedback/manager.go
FbNone == [idx |-> << >>]

\* The first loop of GetRelevantFeedback: newest first, same alert name.
RECURSIVE NamePass(_, _, _, _, _)
NamePass(fbs, i, relevant, alertName, limit) ==
    IF i < 1 \/ Len(relevant) >= limit
    THEN relevant
    ELSE NamePass(fbs, i - 1,
                  IF fbs[i].AlertName = alertName
                  THEN Append(relevant, i) ELSE relevant,
                  alertName, limit)

RECURSIVE CategoryPass_IgnoresLimit(_, _, _, _, _, _)
CategoryPass_IgnoresLimit(fbs, i, relevant, category, alertName, limit) ==
    IF i < 1
    THEN relevant
    ELSE CategoryPass_IgnoresLimit(fbs, i - 1,
             IF fbs[i].Category = category /\ fbs[i].AlertName # alertName
             THEN Append(relevant, i) ELSE relevant,
             category, alertName, limit)

\* The second loop: newest first, same category and another name, skipping a
\* record whose Timestamp equals the Timestamp of one already taken.
RECURSIVE CategoryPass(_, _, _, _, _, _)
CategoryPass(fbs, i, relevant, category, alertName, limit) ==
    IF i < 1 \/ Len(relevant) >= limit
    THEN relevant
    ELSE LET fb == fbs[i]
             found == \E k \in 1..Len(relevant) :
                          fbs[relevant[k]].Timestamp = fb.Timestamp
         IN  CategoryPass(fbs, i - 1,
                          IF fb.Category = category /\ fb.AlertName # alertName
                             /\ ~found
                          THEN Append(relevant, i) ELSE relevant,
                          category, alertName, limit)

\* GetRelevantFeedback, as the positions of the records it returns.
RelevantIdx(fbs, category, alertName, limit) ==
    LET first == NamePass(fbs, Len(fbs), << >>, alertName, limit)
    IN  IF Len(first) < limit
        THEN CategoryPass(fbs, Len(fbs), first, category, alertName, limit)
        ELSE first

GetRelevantFeedback(fbs, category, alertName, limit) ==
    LET idx == RelevantIdx(fbs, category, alertName, limit)
    IN  [k \in 1..Len(idx) |-> fbs[idx[k]]]

\* A time.Time, in hours, as the text the file holds (day and hour), and back.
FormatTime(t) == << t \div 24, t % 24 >>
ParseTime(s) == s[1] * 24 + s[2]

\* json.MarshalIndent of the store (line 115), with the keys of types.Feedback.
EncodeFeedback(fb) ==
    [timestamp |-> FormatTime(fb.Timestamp), alert_name |-> fb.AlertName,
     category |-> fb.Category, namespace |-> fb.Namespace,
     summary |-> fb.Summary, analysis |-> fb.Analysis,
     is_correct |-> fb.IsCorrect, slack_thread |-> fb.SlackThread]
Encode(fbs) == [i \in 1..Len(fbs) |-> EncodeFeedback(fbs[i])]

\* json.Unmarshal into the store (line 110).
DecodeFeedback(o) ==
    [Timestamp |-> ParseTime(o.timestamp), AlertName |-> o.alert_name,
     Category |-> o.category, Namespace |-> o.namespace,
     Summary |-> o.summary, Analysis |-> o.analysis,
     IsCorrect |-> o.is_correct, SlackThread |-> o.slack_thread]
Decode(data) == [i \in 1..Len(data) |-> DecodeFeedback(data[i])]

FileStates == {"missing", "unreadable", "invalid", "valid"}

\* load (lines 104-111): os.ReadFile fails on a missing or
\* unreadable file, json.Unmarshal on a file that is no document.
LoadFails(file) == file # "valid"

\* m.store after load: untouched by a failure.
Load(file, content) == IF LoadFails(file) THEN << >> ELSE Decode(content)

StoreAtSave_BeforeAppend(fbs, fb) == fbs

\* Lines 40 and 45: save() runs after the append, on the whole store.
StoreAtSave(fbs, fb) == Append(fbs, fb)

\* RecordFeedback: append, then save() rewrites the whole file or fails.
RecordFeedback(fb, saveOk) ==
    /\ feedbacks' = Append(feedbacks, fb)
    /\ disk' = IF saveOk THEN Encode(StoreAtSave(feedbacks, fb)) ELSE disk

\* Annotations["summary"] of the alert.
AlertSummary == << "summary" >>

Feedback(ts, alertName, category, ns, analysis, isCorrect, thread) ==
    [Timestamp |-> ts, AlertName |-> alertName, Category |-> category,
     Namespace |-> ns, Summary |-> AlertSummary, Analysis |-> analysis,
     IsCorrect |-> isCorrect, SlackThread |-> thread]

\* ------------------------------------------------------------------ texts
NoAnalysis == [kind |-> "none", chunks |-> << >>]
ChunksText(chunks) == [kind |-> "chunks", chunks |-> chunks]
\* fmt.Sprintf("Error: %v", err)
ErrorText == [kind |-> "error", chunks |-> << >>]

NoText == [hdr |-> "none", analysis |-> NoAnalysis, suffix |-> FALSE]
ProgressText(chunks) ==
    [hdr |-> "progress", analysis |-> ChunksText(chunks), suffix |-> FALSE]
CompleteText(analysis) ==
    [hdr |-> "complete", analysis |-> analysis, suffix |-> TRUE]
PlainText(analysis) ==
    [hdr |-> "plain", analysis |-> analysis, suffix |-> TRUE]

\* ------------------------------------------------------ pkg/slack/client.go
IsConfigured == slackMode # "none"
HasBotToken == slackMode \in {"bot", "both"}
HasWebhook == slackMode \in {"webhook", "both"}

\* What a notifier method can come back with: "err" an error, "ts" success
\* with a message timestamp, "plain" success without one (an incoming
\* webhook answering "ok"), "ok" success of an update, "noop" nothing sent.
SendAlertOutcomes ==
    IF HasBotToken THEN {"err", "ts"}
    ELSE IF HasWebhook THEN {"err", "plain", "ts"}
    ELSE {"noop"}

SendAnalysisInThreadOutcomes(threadTS) ==
    IF HasBotToken /\ threadTS # 0 THEN {"err", "ts"}
    ELSE IF HasWebhook THEN {"err", "plain"}
    ELSE {"noop"}

SendAnalysisOutcomes(threadTS) ==
    IF HasBotToken /\ threadTS # 0 THEN {"err", "ts"}
    ELSE IF HasWebhook THEN {"err", "plain"}
    ELSE {"noop"}

UpdateMessageOutcomes == IF HasBotToken THEN {"err", "ok"} ELSE {"err"}

ReturnedTS(outcome) == IF outcome = "ts" THEN nextTS ELSE 0
Posted(outcome) == outcome \in {"ts", "plain"}
NextTSAfter(outcome) == IF outcome = "ts" THEN nextTS + 1 ELSE nextTS

\* One call of a collaborator, as ProcessAlert made it.
Call(op, ts, text, outcome, n, arg) ==
    [op |-> op, ts |-> ts, text |-> text, ok |-> outcome # "err",
     created |-> Posted(outcome), n |-> n, arg |-> arg]

\* ------------------------------------------ internal/processor/alert.go
NoAlert == [id |-> 0, name |-> "X", ns |-> ""]
NoDebug == [category |-> << >>, similar |-> 0]

InitProc ==
    [pc |-> "idle", alert |-> NoAlert, slackThreadTS |-> 0,
     category |-> << >>, similarCases |-> 0, debugInfo |-> NoDebug,
     pastFeedback |-> << >>, fullAnalysis |-> << >>, updateCount |-> 0,
     analysisMessageTS |-> 0, err |-> FALSE, analysis |-> NoAnalysis]

Logged(a, c) == calls' = [calls EXCEPT ![a] = Append(@, c)]

NamespaceCheck_Skipped(ns) == "post"

\* Lines 60-69: the namespace check.
NamespaceCheck(ns) == IF ns = "" THEN "done" ELSE "post"

ProcessAlert(a) ==
    /\ proc[a].pc = "idle"
    /\ \E name \in InboundNames, ns \in Namespaces :
          proc' = [proc EXCEPT ![a].alert = [id |-> a, name |-> name, ns |-> ns],
                               ![a].pc = NamespaceCheck(ns)]
    /\ UNCHANGED << apart, kb, pendingMutex,
                    slackMode, kbEnabled, calls, registered, pendingFeedback,
                    feedbacks, disk, checker, rcalls, now, nextTS, fbQuery,
                    fbResult >>

\* Lines 71-81: the alert is sent to chat first.
SendAlert(a) ==
    /\ proc[a].pc = "post"
    /\ IF IsConfigured
       THEN \E o \in SendAlertOutcomes :
               /\ proc' = [proc EXCEPT ![a].slackThreadTS = ReturnedTS(o),
                                       ![a].pc = "categorize"]
               /\ Logged(a, Call("SendAlert", ReturnedTS(o), NoText, o, 0, << >>))
               /\ nextTS' = NextTSAfter(o)
       ELSE /\ proc' = [proc EXCEPT ![a].pc = "categorize"]
            /\ UNCHANGED << calls, nextTS >>
    /\ UNCHANGED << apart, kb, pendingMutex,
                    slackMode, kbEnabled, registered, pendingFeedback,
                    feedbacks, disk, checker, rcalls, now, fbQuery, fbResult >>

AfterCategorize_Aborts(failed) == IF failed THEN "done" ELSE "search"

\* Lines 83-90: an error of the provider gives "unknown", and the search is next.
AfterCategorize(failed) == "search"

Categorize(a) ==
    /\ proc[a].pc = "categorize"
    /\ \E failed \in BOOLEAN, content \in RawAnswers :
          /\ failed => content = << >>
          /\ proc' = [proc EXCEPT
                 ![a].category = IF failed THEN CatUnknown
                                 ELSE CategorizeAlert(content),
                 ![a].pc = AfterCategorize(failed)]
          /\ Logged(a, Call("CategorizeAlert", 0, NoText,
                            IF failed THEN "err" ELSE "ok", 0,
                            IF content \in validCategories
                            THEN << "in the set" >> ELSE << "not in the set" >>))
    /\ UNCHANGED << apart, kb, pendingMutex,
                    slackMode, kbEnabled, registered, pendingFeedback,
                    feedbacks, disk, checker, rcalls, now, nextTS, fbQuery,
                    fbResult >>

\* Lines 92-108: the knowledge base is searched when there is one.
FindSimilar(a) ==
    /\ proc[a].pc = "search"
    /\ IF kbEnabled
       THEN \E failed \in BOOLEAN, n \in 0..MaxSimilar :
               /\ failed => n = 0
               /\ proc' = [proc EXCEPT ![a].similarCases = n,
                                       ![a].pc = "gather"]
               /\ Logged(a, Call("FindSimilar", 0, NoText,
                                 IF failed THEN "err" ELSE "ok", n, << >>))
       ELSE /\ proc' = [proc EXCEPT ![a].pc = "gather"]
            /\ UNCHANGED calls
    /\ UNCHANGED << apart, kb, pendingMutex,
                    slackMode, kbEnabled, registered, pendingFeedback,
                    feedbacks, disk, checker, rcalls, now, nextTS, fbQuery,
                    fbResult >>

\* Line 111.
GatherDebugInfo(a) ==
    /\ proc[a].pc = "gather"
    /\ proc' = [proc EXCEPT
           ![a].debugInfo = [category |-> proc[a].category, similar |-> 0],
           ![a].pc = "feedback"]
    /\ Logged(a, Call("GatherDebugInfo", 0, NoText, "ok", 0, proc[a].category))
    /\ UNCHANGED << apart, kb, pendingMutex,
                    slackMode, kbEnabled, registered, pendingFeedback,
                    feedbacks, disk, checker, rcalls, now, nextTS, fbQuery,
                    fbResult >>

\* Lines 113-149: past feedback, then the similar cases join the debug info.
\* Lines 120-126: the link to the thread is added to the Summary of a record
\* that has a thread, when there is a bot token and a workspace ID.
SlackLink(fb) == [workspaceID |-> app.workspaceID, thread |-> fb.SlackThread]
Decorated(fbs) ==
    [i \in 1..Len(fbs) |->
        IF fbs[i].SlackThread # 0 /\ HasBotToken /\ app.workspaceID # << >>
        THEN [fbs[i] EXCEPT !.Summary = @ \o << " (See: ", SlackLink(fbs[i]) >>]
        ELSE fbs[i]]

StoreAfterDecoration_Shared(fbs, idx, decorated) ==
    [i \in 1..Len(fbs) |->
        IF \E k \in 1..Len(idx) : idx[k] = i
        THEN decorated[CHOOSE k \in 1..Len(idx) : idx[k] = i]
        ELSE fbs[i]]

\* GetRelevantFeedback appends copies of the records (manager.go, lines 56-58
\* and 64-76): what is written into pastFeedback[i] is not written into the
\* store.
StoreAfterDecoration(fbs, idx, decorated) == fbs

PastFeedback(a) ==
    /\ proc[a].pc = "feedback"
    /\ LET idx == RelevantIdx(feedbacks, proc[a].category,
                              proc[a].alert.name, FeedbackLimit)
           decorated ==
               Decorated(GetRelevantFeedback(feedbacks, proc[a].category,
                                             proc[a].alert.name,
                                             FeedbackLimit))
       IN  /\ proc' = [proc EXCEPT
                  ![a].pastFeedback = decorated,
                  ![a].debugInfo.similar = Min(proc[a].similarCases, 3),
                  ![a].pc = "analyze"]
           /\ feedbacks' = StoreAfterDecoration(feedbacks, idx, decorated)
    /\ Logged(a, Call("GetRelevantFeedback", 0, NoText, "ok", 0,
                      proc[a].category))
    /\ UNCHANGED << apart, kb, pendingMutex,
                    slackMode, kbEnabled, registered, pendingFeedback,
                    disk, checker, rcalls, now, nextTS, fbQuery,
                    fbResult >>

\* Line 158: the streaming call is made.
AnalyzeDebugInfoStream(a) ==
    /\ proc[a].pc = "analyze"
    /\ proc' = [proc EXCEPT ![a].pc = "stream"]
    /\ Logged(a, Call("AnalyzeDebugInfoStream", 0, NoText, "ok",
                      proc[a].debugInfo.similar, proc[a].debugInfo.category))
    /\ UNCHANGED << apart, kb, pendingMutex,
                    slackMode, kbEnabled, registered, pendingFeedback,
                    feedbacks, disk, checker, rcalls, now, nextTS, fbQuery,
                    fbResult >>

PushDue_EveryChunk(a, count) == IsConfigured /\ proc[a].slackThreadTS # 0

\* The condition of line 163.
PushDue(a, count) ==
    IsConfigured /\ proc[a].slackThreadTS # 0 /\ count % PushEvery = 0

\* Lines 158-179: the callback, for the chunk numbered updateCount + 1.
OnChunk(a) ==
    /\ proc[a].pc = "stream"
    /\ proc[a].updateCount < MaxChunks
    /\ LET count == proc[a].updateCount + 1
           text == Append(proc[a].fullAnalysis, count)
       IN  IF PushDue(a, count)
           THEN IF proc[a].analysisMessageTS = 0
                THEN \E o \in SendAnalysisInThreadOutcomes(proc[a].slackThreadTS) :
                        /\ proc' = [proc EXCEPT
                               ![a].fullAnalysis = text,
                               ![a].updateCount = count,
                               ![a].analysisMessageTS = ReturnedTS(o)]
                        /\ Logged(a, Call("SendAnalysisInThread", ReturnedTS(o),
                                          ProgressText(text), o, count, << >>))
                        /\ nextTS' = NextTSAfter(o)
                ELSE \E o \in UpdateMessageOutcomes :
                        /\ proc' = [proc EXCEPT ![a].fullAnalysis = text,
                                                ![a].updateCount = count]
                        /\ Logged(a, Call("UpdateMessage",
                                          proc[a].analysisMessageTS,
                                          ProgressText(text), o, count, << >>))
                        /\ UNCHANGED nextTS
           ELSE /\ proc' = [proc EXCEPT ![a].fullAnalysis = text,
                                        ![a].updateCount = count]
                /\ UNCHANGED << calls, nextTS >>
    /\ UNCHANGED << apart, kb, pendingMutex,
                    slackMode, kbEnabled, registered, pendingFeedback,
                    feedbacks, disk, checker, rcalls, now, fbQuery, fbResult >>

AnalysisAfter_KeepsChunks(chunks, failed) == ChunksText(chunks)

\* Lines 181-185: what ProcessAlert takes as the analysis once the call is back.
AnalysisAfter(chunks, failed) ==
    IF failed THEN ErrorText ELSE ChunksText(chunks)

\* The numbers of chunks a stream may deliver before the call is back:
\* around each push and at the bound.
StreamLengths ==
    { 0, 1, PushEvery - 1, PushEvery, PushEvery + 1, 2 * PushEvery - 1,
      2 * PushEvery, MaxChunks }

StreamReturns(a) ==
    /\ proc[a].pc = "stream"
    /\ proc[a].updateCount \in StreamLengths
    /\ \E failed \in BOOLEAN :
          proc' = [proc EXCEPT
              ![a].err = failed,
              ![a].analysis = AnalysisAfter(proc[a].fullAnalysis, failed),
              ![a].pc = "final"]
    /\ UNCHANGED << apart, kb, pendingMutex,
                    slackMode, kbEnabled, calls, registered, pendingFeedback,
                    feedbacks, disk, checker, rcalls, now, nextTS, fbQuery,
                    fbResult >>

AfterFinal_AlwaysStores(ts) == "store"

\* Lines 191-227: the final message, before storePendingFeedback.
AfterFinal(ts) == IF ts # 0 THEN "store" ELSE "done"

SendFinal(a) ==
    /\ proc[a].pc = "final"
    /\ IF IsConfigured /\ proc[a].slackThreadTS # 0
       THEN IF proc[a].analysisMessageTS # 0
            THEN \E o \in UpdateMessageOutcomes :
                    /\ proc' = [proc EXCEPT ![a].pc = "store"]
                    /\ Logged(a, Call("UpdateMessage", proc[a].analysisMessageTS,
                                      CompleteText(proc[a].analysis), o,
                                      proc[a].updateCount, << "final" >>))
                    /\ UNCHANGED nextTS
            ELSE \E o \in SendAnalysisInThreadOutcomes(proc[a].slackThreadTS) :
                    /\ proc' = [proc EXCEPT
                           ![a].analysisMessageTS = ReturnedTS(o),
                           ![a].pc = AfterFinal(ReturnedTS(o))]
                    /\ Logged(a, Call("SendAnalysisInThread", ReturnedTS(o),
                                      CompleteText(proc[a].analysis), o,
                                      proc[a].updateCount, << "final" >>))
                    /\ nextTS' = NextTSAfter(o)
       ELSE IF IsConfigured
            THEN \E o \in SendAnalysisOutcomes(0) :
                    /\ proc' = [proc EXCEPT ![a].pc = "done"]
                    /\ Logged(a, Call("SendAnalysis", 0,
                                      PlainText(proc[a].analysis), o,
                                      proc[a].updateCount, << "final" >>))
                    /\ UNCHANGED nextTS
            ELSE /\ proc' = [proc EXCEPT ![a].pc = "done"]
                 /\ UNCHANGED << calls, nextTS >>
    /\ UNCHANGED << apart, kb, pendingMutex,
                    slackMode, kbEnabled, registered, pendingFeedback,
                    feedbacks, disk, checker, rcalls, now, fbQuery, fbResult >>

\* Lines 231-245.
PendingEntry(a) ==
    [Alert |-> proc[a].alert, Category |-> proc[a].category,
     Analysis |-> proc[a].analysis, ThreadTS |-> proc[a].slackThreadTS,
     AnalysisTS |-> proc[a].analysisMessageTS, Timestamp |-> now]

MapPut_OverStaleCopy(m, k, v) == [x \in {k} |-> v]
MapPut(m, k, v) == [x \in DOMAIN m \cup {k} |-> IF x = k THEN v ELSE m[x]]
MapDelete_Keeps(m, k) == m
MapDelete(m, k) == [x \in DOMAIN m \ {k} |-> m[x]]

storePendingFeedback(a) ==
    /\ proc[a].pc = "store"
    /\ pendingMutex = "free"
    /\ pendingFeedback' =
           MapPut(pendingFeedback, proc[a].analysisMessageTS, PendingEntry(a))
    /\ registered' =
           [registered EXCEPT ![a] = Append(@, proc[a].analysisMessageTS)]
    /\ proc' = [proc EXCEPT ![a].pc = "done"]
    /\ UNCHANGED << apart, kb, pendingMutex,
                    slackMode, kbEnabled, calls, feedbacks, disk, checker,
                    rcalls, now, nextTS, fbQuery, fbResult >>

\* ------------------------------------------------- pkg/knowledge/store.go
\* An embedding is a direction of the plane, in steps of 45 degrees.
Directions == 0..7
\* kb.embeddings.Generate on GetSearchText: a function of the text.
EmbeddingOf(alertName) == IF alertName = "X" THEN 0 ELSE 1

\* Lines 320-336.
FromAlert(alert, category, analysis, debugInfo) ==
    [ID |-> 0, AlertName |-> alert.name, Category |-> category,
     Namespace |-> alert.ns, Analysis |-> analysis, DebugInfo |-> debugInfo,
     Validated |-> TRUE]

\* Lines 83-136: the embedding is generated, a new ID is given to a case
\* that has none, and the row is written; either call may fail.
KbRow(alertCase) ==
    [ID |-> IF alertCase.ID = 0 THEN Len(kb) + 1 ELSE alertCase.ID,
     AlertName |-> alertCase.AlertName, Category |-> alertCase.Category,
     Namespace |-> alertCase.Namespace, Analysis |-> alertCase.Analysis,
     DebugInfo |-> alertCase.DebugInfo, Validated |-> alertCase.Validated,
     Embedding |-> EmbeddingOf(alertCase.AlertName)]

\* Lines 103-109: what ON CONFLICT (id) DO UPDATE SET writes into the row
\* that holds the id already; the columns it does not name keep their value.
OnConflict(old, row) ==
    [old EXCEPT !.Category = row.Category, !.Analysis = row.Analysis,
                !.DebugInfo = row.DebugInfo, !.Validated = row.Validated,
                !.Embedding = row.Embedding]

HasID(table, id) == \E i \in 1..Len(table) : table[i].ID = id

Upsert_AlwaysInserts(table, row) == Append(table, row)

\* Lines 97-110: id is the primary key of alert_cases; INSERT, and on a
\* conflict on id the update of the row found.
Upsert(table, row) ==
    IF HasID(table, row.ID)
    THEN [i \in 1..Len(table) |->
            IF table[i].ID = row.ID THEN OnConflict(table[i], row)
            ELSE table[i]]
    ELSE Append(table, row)

KbStore(alertCase, ok) ==
    kb' = IF ok THEN Upsert(kb, KbRow(alertCase)) ELSE kb

\* --------------------------------- pkg/knowledge/store.go, FindSimilar
\* Embeddings are unit vectors in steps of 45 degrees; the cosine of the
\* angle between two of them, in hundredths.
Cosine(d, e) ==
    LET turn == (d - e + 8) % 8
    IN  CASE turn = 0 -> 100
          [] turn \in {1, 7} -> 71
          [] turn \in {2, 6} -> 0
          [] turn \in {3, 5} -> 0 - 71
          [] OTHER -> 0 - 100

\* embedding <=> $1, pgvector's cosine distance.
Distance(d, e) == 100 - Cosine(d, e)

\* 1 - (embedding <=> $1::vector) as similarity.
Similarity(d, e) == 100 - Distance(d, e)

\* NewKnowledgeBase (lines 55-64): a zero threshold or maximum is replaced.
DefaultThreshold == 75
DefaultMaxCases == 5
ThresholdOf(configured) ==
    IF configured = 0 THEN DefaultThreshold ELSE configured
MaxCasesOf(configured) ==
    IF configured = 0 THEN DefaultMaxCases ELSE configured

Qualifies_Unvalidated(row, q, threshold) ==
    Similarity(row.Embedding, q) >= threshold

\* The WHERE clause (lines 154-155).
Qualifies(row, q, threshold) ==
    row.Validated /\ Similarity(row.Embedding, q) >= threshold

Matching(table, q, threshold) ==
    { i \in 1..Len(table) : Qualifies(table[i], q, threshold) }

\* ORDER BY embedding <=> $1::vector (line 156): nearest first, rows at the
\* same distance in any order.
RowsSorted(table, q, order) ==
    \A i, j \in 1..Len(order) :
        i < j => Distance(table[order[i]].Embedding, q)
                    <= Distance(table[order[j]].Embedding, q)

\* The rows the query returns: the sorted matches, cut by LIMIT (line 157).
QueryRows(table, q, threshold, max) ==
    { SubSeq(order, 1, Min(max, Len(order))) :
        order \in { o \in Orders(Matching(table, q, threshold)) :
                      RowsSorted(table, q, o) } }

\* Lines 171-200: a row that cannot be scanned is passed over.
RECURSIVE Scanned(_, _)
Scanned(rows, unreadable) ==
    IF rows = << >> THEN << >>
    ELSE IF Head(rows) \in unreadable
         THEN Scanned(Tail(rows), unreadable)
         ELSE << Head(rows) >> \o Scanned(Tail(rows), unreadable)

SimilarCases(table, q, rows) ==
    [k \in 1..Len(rows) |->
        [Case |-> table[rows[k]],
         Similarity |-> Similarity(table[rows[k]].Embedding, q)]]

RowDirections == {0, 1, 4}
QueryDirections == {0, 1}
ConfiguredThresholds == {0, 50}

KbConfig(threshold, max) ==
    [asked |-> FALSE, similarityThreshold |-> ThresholdOf(threshold),
     maxSimilarCases |-> MaxCasesOf(max), q |-> 0, err |-> "none",
     result |-> << >>]

\* A row comes into the table, from Store or from another writer.
KbInsert ==
    /\ Len(kb) < MaxRows
    /\ \E validated \in BOOLEAN, e \in RowDirections :
          kb' = Append(kb,
                       [KbRow(FromAlert(NoAlert, CatCpu, NoAnalysis, NoDebug))
                          EXCEPT !.Validated = validated, !.Embedding = e])
    /\ kbQuery' = [kbQuery EXCEPT !.asked = FALSE, !.err = "none",
                                  !.result = << >>]
    /\ UNCHANGED << manual, served, fbCall, kbCall, pendingMutex,
                    slackMode, kbEnabled, proc, calls, registered,
                    pendingFeedback, feedbacks, disk, checker, rcalls, now,
                    nextTS, fbQuery, fbResult >>

\* FindSimilar: the embedding of the text (lines 140-143), the query (lines
\* 147-167), the rows read (lines 170-204).
KbFindSimilar ==
    /\ \E q \in QueryDirections :
          \/ \E err \in {"embedding", "query", "rows"} :
                kbQuery' = [kbQuery EXCEPT !.asked = TRUE, !.q = q,
                                           !.err = err, !.result = << >>]
          \/ \E rows \in QueryRows(kb, q, kbQuery.similarityThreshold,
                                    kbQuery.maxSimilarCases) :
                \E unreadable \in SUBSET Range(rows) :
                   kbQuery' =
                      [kbQuery EXCEPT
                          !.asked = TRUE, !.q = q, !.err = "none",
                          !.result = SimilarCases(kb, q,
                                                  Scanned(rows, unreadable))]
    /\ UNCHANGED << manual, served, fbCall, kbCall, kb, pendingMutex,
                    slackMode, kbEnabled, proc, calls, registered,
                    pendingFeedback, feedbacks, disk, checker, rcalls, now,
                    nextTS, fbQuery, fbResult >>

\* Store called with a case of the caller's making: an ID of its own or
\* none, any alert name and category.
CaseIDs == {101, 102}
StoreInputs ==
    { [FromAlert([id |-> 1, name |-> n, ns |-> "prod"], c, NoAnalysis,
                 NoDebug) EXCEPT !.ID = id] :
        n \in AlertNames, c \in {CatCpu, CatHpa}, id \in {0} \cup CaseIDs }

NoKbCall == [op |-> "none"]

KbStoreCase ==
    /\ \E alertCase \in StoreInputs, ok \in BOOLEAN :
          /\ HasID(kb, alertCase.ID) \/ Len(kb) < MaxRows
          /\ KbStore(alertCase, ok)
          /\ kbCall' = [op |-> "Store", case |-> alertCase, ok |-> ok,
                        existed |-> HasID(kb, alertCase.ID),
                        rows |-> Len(kb)]
    /\ UNCHANGED << manual, kbQuery, served, fbCall, pendingMutex,
                    slackMode, kbEnabled, proc, calls, registered,
                    pendingFeedback, feedbacks, disk, checker, rcalls, now,
                    nextTS, fbQuery, fbResult >>

\* --------------------------------------------- the Manager used on its own
FbCategories == {CatCpu, CatHpa}
\* Two records may carry the same Timestamp or different ones.
FbTimestamps == {1, 2}
FbInputs ==
    { Feedback(ts, n, c, "prod", NoAnalysis, TRUE, 0) :
        ts \in FbTimestamps, n \in AlertNames, c \in FbCategories }

NoQuery == [asked |-> FALSE, category |-> CatCpu, alertName |-> "X",
            limit |-> 0, size |-> 0]

FbRecord ==
    /\ Len(feedbacks) < MaxStore
    /\ \E fb \in FbInputs : RecordFeedback(fb, TRUE)
    /\ fbQuery' = NoQuery
    /\ fbResult' = FbNone
    /\ UNCHANGED << apart, kb, pendingMutex,
                    slackMode, kbEnabled, proc, calls, registered,
                    pendingFeedback, checker, rcalls, now, nextTS >>

FbQuery ==
    /\ \E c \in FbCategories, n \in AlertNames, l \in 0..MaxLimit :
          /\ fbQuery' = [asked |-> TRUE, category |-> c, alertName |-> n,
                         limit |-> l, size |-> Len(feedbacks)]
          /\ fbResult' = [idx |-> RelevantIdx(feedbacks, c, n, l)]
    /\ UNCHANGED << apart, kb, pendingMutex,
                    slackMode, kbEnabled, proc, calls, registered,
                    pendingFeedback, feedbacks, disk, checker, rcalls, now,
                    nextTS >>

\* The records written when every save is looked at: either verdict, a
\* Timestamp within the first day or after it.
SaveInputs ==
    { Feedback(ts, "X", CatCpu, "prod", NoAnalysis, c, 0) :
        ts \in {1, 30}, c \in BOOLEAN }

NoFbCall ==
    [op |-> "none", err |-> FALSE, failedOnce |-> FALSE,
     fb |-> Feedback(0, "X", CatCpu, "prod", NoAnalysis, FALSE, 0),
     size |-> 0, stats |-> << 0, 0, 0 >>]

\* RecordFeedback called on the Manager, whatever save() returns.
FbSave ==
    /\ Len(feedbacks) < MaxStore
    /\ \E fb \in SaveInputs, saveOk \in BOOLEAN :
          /\ RecordFeedback(fb, saveOk)
          /\ fbCall' = [fbCall EXCEPT
                            !.op = "RecordFeedback", !.err = ~saveOk,
                            !.fb = fb, !.failedOnce = @ \/ ~saveOk,
                            !.size = Len(feedbacks)]
    /\ UNCHANGED << kbCall, manual, kbQuery, served, kb, pendingMutex,
                    slackMode, kbEnabled, proc, calls, registered,
                    pendingFeedback, checker, rcalls, now, nextTS, fbQuery,
                    fbResult >>

\* Records that point to a chat thread, or to none.
ThreadInputs ==
    { Feedback(1, "X", CatCpu, "prod", NoAnalysis, TRUE, th) : th \in {0, 5} }

\* RecordFeedback with a save that works.
FbAppend ==
    /\ Len(feedbacks) < MaxStore
    /\ \E fb \in ThreadInputs :
          /\ RecordFeedback(fb, TRUE)
          /\ fbCall' = [fbCall EXCEPT !.op = "RecordFeedback", !.err = FALSE,
                                      !.fb = fb]
    /\ UNCHANGED << kbCall, manual, kbQuery, served, kb, pendingMutex,
                    slackMode, kbEnabled, proc, calls, registered,
                    pendingFeedback, checker, rcalls, now, nextTS, fbQuery,
                    fbResult >>

\* GetStats (lines 87-101): the records are counted.
Count(fbs, isCorrect) ==
    Cardinality({ i \in 1..Len(fbs) : fbs[i].IsCorrect = isCorrect })

FbStats ==
    /\ fbCall.op # "GetStats"
    /\ fbCall' = [fbCall EXCEPT
                      !.op = "GetStats", !.err = FALSE,
                      !.stats = << Len(feedbacks), Count(feedbacks, TRUE),
                                   Count(feedbacks, FALSE) >>]
    /\ UNCHANGED << kbCall, manual, kbQuery, served, kb, pendingMutex,
                    slackMode, kbEnabled, proc, calls, registered,
                    pendingFeedback, feedbacks, disk, checker, rcalls, now,
                    nextTS, fbQuery, fbResult >>

\* The process is started again: NewManager reads the file the last
\* successful save left, or finds none.
Restart ==
    /\ fbCall.op # "NewManager"
    /\ feedbacks' = Load(IF disk = << >> THEN "missing" ELSE "valid", disk)
    /\ fbCall' = [fbCall EXCEPT !.op = "NewManager", !.err = disk = << >>]
    /\ UNCHANGED << kbCall, manual, kbQuery, served, kb, pendingMutex,
                    slackMode, kbEnabled, proc, calls, registered,
                    pendingFeedback, disk, checker, rcalls, now, nextTS,
                    fbQuery, fbResult >>

\* ----------------------------- checkPendingReactions (lines 285-387)
PositiveNames == { "white_check_mark", "coche_blanche", "heavy_check_mark" }
NegativeNames == { "x", "cross", "negative_squared_cross_mark" }
ReactionNames == PositiveNames \cup NegativeNames \cup { "eyes" }

RECURSIVE SeqsUpTo(_, _)
SeqsUpTo(S, n) ==
    IF n = 0 THEN { << >> }
    ELSE SeqsUpTo(S, n - 1) \cup
         { Append(s, c) : s \in { t \in SeqsUpTo(S, n - 1) : Len(t) = n - 1 },
                          c \in S }

\* What the lookup may return: one reaction of any name, or up to
\* MaxReactions reactions of a positive, a negative and an unrelated name.
MixedNames == { "white_check_mark", "x", "eyes" }
ReactionLists ==
    SeqsUpTo(ReactionNames, 1) \cup SeqsUpTo(MixedNames, MaxReactions)

RECURSIVE Verdict_LastDecides(_)
Verdict_LastDecides(reactions) ==
    IF reactions = << >> THEN "none"
    ELSE IF reactions[Len(reactions)] \in PositiveNames THEN "correct"
    ELSE IF reactions[Len(reactions)] \in NegativeNames THEN "incorrect"
    ELSE Verdict_LastDecides(SubSeq(reactions, 1, Len(reactions) - 1))

\* Lines 322-334: the first name of either set decides; "none" is the nil.
RECURSIVE Verdict(_)
Verdict(reactions) ==
    IF reactions = << >> THEN "none"
    ELSE IF Head(reactions) \in PositiveNames THEN "correct"
    ELSE IF Head(reactions) \in NegativeNames THEN "incorrect"
    ELSE Verdict(Tail(reactions))

Expired_AfterTwoDays(pending) == now - pending.Timestamp > 2 * ExpiryHours

\* Line 308.
Expired(pending) == now - pending.Timestamp > ExpiryHours

\* The reactions of line 316, kept until the next step of the checker.
NoLookup == [ts |-> 0, reactions |-> << >>]

InitChecker(mode) ==
    [pc |-> IF mode \in {"bot", "both"} THEN "idle" ELSE "off",
     pendingList |-> << >>, i |-> 1, isCorrect |-> FALSE, last |-> NoLookup]

Current == checker.pendingList[checker.i]

RCall(op, ts, ok, correct) ==
    [op |-> op, ts |-> ts, ok |-> ok, correct |-> correct]

\* Lines 299-303: RLock and the snapshot, in the order the map iteration
\* gives.  A pass over an empty snapshot does nothing and is left out.
Snapshot ==
    /\ checker.pc = "idle"
    /\ DOMAIN pendingFeedback # {}
    /\ pendingMutex = "free"
    /\ pendingMutex' = "read"
    /\ \E order \in Orders(DOMAIN pendingFeedback) :
          checker' = [checker EXCEPT
              !.pendingList = [k \in 1..Len(order) |-> pendingFeedback[order[k]]],
              !.i = 1, !.pc = "locked", !.last = NoLookup]
    /\ rcalls' = << >>
    /\ UNCHANGED << apart, kb,
                    slackMode, kbEnabled, proc, calls, registered,
                    pendingFeedback, feedbacks, disk, now, nextTS, fbQuery,
                    fbResult >>

SnapshotRelease_Deferred == "read"

\* Line 304: RUnlock, called as soon as the copy is made.
SnapshotRelease == "free"

RUnlock ==
    /\ checker.pc = "locked"
    /\ pendingMutex' = SnapshotRelease
    /\ checker' = [checker EXCEPT !.pc = "loop"]
    /\ UNCHANGED << apart, kb, slackMode, kbEnabled, proc, calls, registered,
                    pendingFeedback, feedbacks, disk, rcalls, now, nextTS,
                    fbQuery, fbResult >>

\* Lines 307-313; the delete is made under Lock.
Expire ==
    /\ checker.pc = "loop"
    /\ pendingMutex = "free"
    /\ checker.i <= Len(checker.pendingList)
    /\ Expired(Current)
    /\ pendingFeedback' = MapDelete(pendingFeedback, Current.AnalysisTS)
    /\ checker' = [checker EXCEPT !.i = @ + 1, !.last = NoLookup]
    /\ UNCHANGED << apart, kb, pendingMutex,
                    slackMode, kbEnabled, proc, calls, registered, feedbacks,
                    disk, rcalls, now, nextTS, fbQuery, fbResult >>

AfterVerdict_DeletesFirst(v) == IF v = "none" THEN "loop" ELSE "delete"

\* Lines 315-336: the lookup and the scan of the names.
AfterVerdict(v) == IF v = "none" THEN "loop" ELSE "record"

AfterLookupError_EndsPass(i) == Len(checker.pendingList) + 1

\* Lines 317-320: the error is logged and the loop continues with the next
\* entry of the snapshot.
AfterLookupError(i) == i + 1

GetMessageReactions ==
    /\ checker.pc = "loop"
    /\ checker.i <= Len(checker.pendingList)
    /\ ~Expired(Current)
    /\ \E failed \in BOOLEAN, reactions \in ReactionLists :
          /\ failed => reactions = << >>
          /\ rcalls' = Append(rcalls, RCall("GetMessageReactions",
                                            Current.AnalysisTS, ~failed, FALSE))
          /\ IF failed
             THEN checker' = [checker EXCEPT !.i = AfterLookupError(@),
                                             !.last = NoLookup]
             ELSE checker' = [checker EXCEPT
                      !.last = [ts |-> Current.AnalysisTS,
                                reactions |-> reactions],
                      !.pc = AfterVerdict(Verdict(reactions)),
                      !.isCorrect = Verdict(reactions) = "correct",
                      !.i = IF Verdict(reactions) = "none" THEN @ + 1 ELSE @]
    /\ UNCHANGED << apart, kb, pendingMutex,
                    slackMode, kbEnabled, proc, calls, registered,
                    pendingFeedback, feedbacks, disk, now, nextTS, fbQuery,
                    fbResult >>

AfterRecord_ErrorStillReplies(saveOk, isCorrect) ==
    IF saveOk /\ isCorrect /\ kbEnabled THEN "store" ELSE "reply"

AfterRecord_StoresEveryVerdict(saveOk, isCorrect) ==
    IF ~saveOk THEN "delete"
    ELSE IF kbEnabled THEN "store" ELSE "reply"

\* Lines 336-352.
AfterRecord(saveOk, isCorrect) ==
    IF ~saveOk THEN "delete"
    ELSE IF isCorrect /\ kbEnabled THEN "store" ELSE "reply"

Record ==
    /\ checker.pc = "record"
    /\ \E saveOk \in BOOLEAN :
          /\ RecordFeedback(
                 Feedback(now, Current.Alert.name, Current.Category,
                          Current.Alert.ns, Current.Analysis,
                          checker.isCorrect, Current.ThreadTS),
                 saveOk)
          /\ rcalls' = Append(rcalls, RCall("RecordFeedback", Current.AnalysisTS,
                                            saveOk, checker.isCorrect))
          /\ checker' = [checker EXCEPT
                 !.pc = AfterRecord(saveOk, checker.isCorrect),
                 !.last = NoLookup]
    /\ UNCHANGED << apart, kb, pendingMutex,
                    slackMode, kbEnabled, proc, calls, registered,
                    pendingFeedback, now, nextTS, fbQuery, fbResult >>

AfterStore_FailureSkipsEntry(ok) == IF ok THEN "reply" ELSE "loop"

\* Lines 365-369: an error of Store is logged, and the reply is next.
AfterStore(ok) == "reply"

\* Lines 358-371.
Store ==
    /\ checker.pc = "store"
    /\ \E ok \in BOOLEAN :
          /\ KbStore(FromAlert(Current.Alert, Current.Category,
                               Current.Analysis, NoDebug), ok)
          /\ rcalls' = Append(rcalls, RCall("Store", Current.AnalysisTS, ok,
                                            checker.isCorrect))
          /\ checker' = [checker EXCEPT !.pc = AfterStore(ok)]
    /\ UNCHANGED << apart, pendingMutex,
                    slackMode, kbEnabled, proc, calls, registered,
                    pendingFeedback, feedbacks, disk, now, nextTS, fbQuery,
                    fbResult >>

\* Lines 373-378.
ReplyToThread ==
    /\ checker.pc = "reply"
    /\ \E ok \in BOOLEAN :
          rcalls' = Append(rcalls, RCall("ReplyToThread", Current.ThreadTS,
                                         ok, checker.isCorrect))
    /\ checker' = [checker EXCEPT !.pc = "delete"]
    /\ UNCHANGED << apart, kb, pendingMutex,
                    slackMode, kbEnabled, proc, calls, registered,
                    pendingFeedback, feedbacks, disk, now, nextTS, fbQuery,
                    fbResult >>

\* Lines 381-385.
Remove ==
    /\ checker.pc = "delete"
    /\ pendingMutex = "free"
    /\ pendingFeedback' = MapDelete(pendingFeedback, Current.AnalysisTS)
    /\ checker' = [checker EXCEPT !.pc = "loop", !.i = @ + 1]
    /\ UNCHANGED << apart, kb, pendingMutex,
                    slackMode, kbEnabled, proc, calls, registered, feedbacks,
                    disk, rcalls, now, nextTS, fbQuery, fbResult >>

\* The pass is over; the loop of line 292 waits for the next tick.
PassEnds ==
    /\ checker.pc = "loop"
    /\ checker.i > Len(checker.pendingList)
    /\ checker' = [checker EXCEPT !.pc = "idle", !.pendingList = << >>,
                                  !.i = 1, !.last = NoLookup]
    /\ UNCHANGED << apart, kb, pendingMutex,
                    slackMode, kbEnabled, proc, calls, registered,
                    pendingFeedback, feedbacks, disk, rcalls, now, nextTS,
                    fbQuery, fbResult >>

\* Time passes.  The clock is read for the Timestamp of an entry or a record
\* and for the age of an entry, so it is followed from the first entry on.
ClockAdvances ==
    /\ now + HoursPerStep <= MaxClock
    /\ DOMAIN pendingFeedback # {} \/ feedbacks # << >>
    /\ now' = now + HoursPerStep
    /\ UNCHANGED << apart, kb, pendingMutex,
                    slackMode, kbEnabled, proc, calls, registered,
                    pendingFeedback, feedbacks, disk, checker, rcalls, nextTS,
                    fbQuery, fbResult >>

\* ------------------------------- RecordManualFeedback (lines 247-283)
NoManual == [calls |-> 0, isCorrect |-> FALSE, returned |-> "nil",
             recorded |-> 0, store |-> "none"]

\* Lines 262-264: an error of RecordFeedback is returned at once.
ManualReturns(saveOk) == IF saveOk THEN "nil" ELSE "err"

ManualStores_WithoutKnowledgeBase(saveOk, isCorrect) == saveOk /\ isCorrect

\* Line 267.
ManualStores(saveOk, isCorrect) == saveOk /\ isCorrect /\ kbEnabled

ManualAlert == [id |-> 0, name |-> "X", ns |-> "prod"]

RecordManualFeedback ==
    /\ manual.calls < MaxManual
    /\ \E isCorrect \in BOOLEAN, saveOk \in BOOLEAN, storeOk \in BOOLEAN :
          /\ RecordFeedback(
                 Feedback(now, ManualAlert.name, CatCpu, ManualAlert.ns,
                          ChunksText(<< 1 >>), isCorrect, 0),
                 saveOk)
          /\ IF ManualStores(saveOk, isCorrect)
             THEN KbStore(FromAlert(ManualAlert, CatCpu, ChunksText(<< 1 >>),
                                    NoDebug), storeOk)
             ELSE storeOk /\ kb' = kb
          /\ manual' = [calls |-> manual.calls + 1, isCorrect |-> isCorrect,
                        returned |-> ManualReturns(saveOk),
                        recorded |-> Len(feedbacks) + 1,
                        store |-> IF ~ManualStores(saveOk, isCorrect)
                                  THEN "none"
                                  ELSE IF storeOk THEN "ok" ELSE "err"]
    /\ UNCHANGED << served, fbCall, kbCall, kbQuery, pendingMutex, slackMode, kbEnabled, proc,
                    calls, registered, pendingFeedback, checker, rcalls, now,
                    nextTS, fbQuery, fbResult >>

NoKbQuery == [asked |-> FALSE]

\* ----------------------------------------- internal/middleware/auth.go
Bearer == << "B", "e", "a", "r", "e", "r" >>
Basic == << "B", "a", "s", "i", "c" >>
Space == << " " >>
Token == << "t" >>
OtherToken == << "u" >>

\* No token configured, or one.
AuthTokens == { << >>, Token }

\* The Authorization header of a request; << >> is a request without one.
Headers ==
    { << >>,
      Bearer \o Space \o Token,
      Bearer \o Space \o OtherToken,
      Bearer \o Space \o Token \o OtherToken,
      Bearer \o Space \o Token \o Space,
      Bearer \o Space \o Space \o Token,
      Bearer \o Space,
      Bearer \o Token,
      Bearer,
      Token,
      Space \o Bearer \o Space \o Token,
      << "b" >> \o Tail(Bearer) \o Space \o Token,
      Basic \o Space \o Token }

\* strings.SplitN(s, sep, 2): cut at the first sep, or s alone.
SplitN2(s, sep) ==
    IF IndexOf(s, sep) = 0
    THEN << s >>
    ELSE << SubSeq(s, 1, IndexOf(s, sep) - 1),
            SubSeq(s, IndexOf(s, sep) + 1, Len(s)) >>

TokenMatches_AnyToken(given, authToken) == TRUE

\* Line 44.
TokenMatches(given, authToken) == given = authToken

\* Authenticate: "next" when the wrapped handler is called, else the reason
\* of the 401.
Authenticate(authToken, authHeader) ==
    IF authToken = << >> THEN "next"
    ELSE IF authHeader = << >> THEN "missing"
    ELSE LET parts == SplitN2(authHeader, " ")
         IN  IF Len(parts) # 2 \/ parts[1] # Bearer THEN "format"
             ELSE IF ~TokenMatches(parts[2], authToken) THEN "token"
             ELSE "next"

\* ------------------------------------------ internal/handler/webhook.go
Tasks == {1, 2}
Methods == {"POST", "GET"}
AlertStatuses == {"firing", "", "resolved"}

\* The alerts DetectAndConvert returns for a body it recognises.
Payloads ==
    { [i \in 1..Len(p) |-> [name |-> "X", ns |-> "prod", status |-> p[i]]] :
        p \in SeqsUpTo(AlertStatuses, MaxPayload) }

\* A request body: whether io.ReadAll reads it, whether an adapter
\* recognises it, and the alerts it then gives.
Bodies ==
    { [read |-> FALSE, known |-> FALSE, alerts |-> << >>],
      [read |-> TRUE, known |-> FALSE, alerts |-> << >>] }
    \cup { [read |-> TRUE, known |-> TRUE, alerts |-> p] : p \in Payloads }

\* Lines 47-65: the status HandleWebhook answers with.
HandlerStatus(method, body) ==
    IF method # "POST" THEN 405
    ELSE IF ~body.read THEN 400
    ELSE IF ~body.known THEN 400
    ELSE 200

\* Line 74.
Firing(alert) == alert.status = "firing" \/ alert.status = ""

NoRequests ==
    [n |-> 0, header |-> << >>, status |-> 0, reached |-> FALSE,
     parsed |-> FALSE, launched |-> FALSE]

\* One request to /webhook, through Authenticate and HandleWebhook: the
\* goroutine is started at line 71, the answer is written at lines 80-81.
HandleWebhook ==
    /\ app.pc = "serving"
    /\ requests.n < Cardinality(Tasks)
    /\ \E header \in Headers, method \in Methods, body \in Bodies :
          LET pass == Authenticate(app.authToken, header) = "next"
              status == IF pass THEN HandlerStatus(method, body) ELSE 401
              launch == pass /\ status = 200
          IN  /\ requests' =
                    [n |-> requests.n + 1, header |-> header,
                     status |-> status, reached |-> pass,
                     parsed |-> pass /\ method = "POST" /\ body.read,
                     launched |-> launch]
              /\ tasks' = IF launch
                          THEN Append(tasks, [alerts |-> body.alerts, i |-> 1])
                          ELSE tasks
    /\ UNCHANGED << manual, kbQuery, fbCall, kbCall, app, kb, pendingMutex,
                    slackMode, kbEnabled, proc, calls, registered,
                    pendingFeedback, feedbacks, disk, checker, rcalls, now,
                    nextTS, fbQuery, fbResult >>

\* Lines 72-77, the loop of the goroutine: a firing alert enters
\* ProcessAlert on this goroutine, another alert is passed over.
RangeAlerts(t) ==
    /\ t \in 1..Len(tasks)
    /\ proc[t].pc = "idle"
    /\ tasks[t].i <= Len(tasks[t].alerts)
    /\ LET alert == tasks[t].alerts[tasks[t].i]
       IN  IF Firing(alert)
           THEN /\ proc' = [proc EXCEPT
                               ![t].alert = [id |-> t, name |-> alert.name,
                                             ns |-> alert.ns],
                               ![t].pc = NamespaceCheck(alert.ns)]
                /\ tasks' = tasks
           ELSE /\ tasks' = [tasks EXCEPT ![t].i = @ + 1]
                /\ proc' = proc
    /\ UNCHANGED << manual, kbQuery, fbCall, kbCall, app, requests, kb, pendingMutex,
                    slackMode, kbEnabled, calls, registered,
                    pendingFeedback, feedbacks, disk, checker, rcalls, now,
                    nextTS, fbQuery, fbResult >>

\* ProcessAlert returns to the loop (alert.go, lines 71-227, taken as one
\* step; what they do to chat and registry is in Spec). A stream that never
\* ends is this step never taken.
ProcessAlertReturns(t) ==
    /\ t \in 1..Len(tasks)
    /\ proc[t].pc # "idle"
    /\ proc' = [proc EXCEPT ![t] = InitProc]
    /\ tasks' = [tasks EXCEPT ![t].i = @ + 1]
    /\ UNCHANGED << manual, kbQuery, fbCall, kbCall, app, requests, kb, pendingMutex,
                    slackMode, kbEnabled, calls, registered,
                    pendingFeedback, feedbacks, disk, checker, rcalls, now,
                    nextTS, fbQuery, fbResult >>

\* --------------------------------------- main.go, internal/app/app.go
AfterLoad_Fatal(err) == IF err THEN "fatal" ELSE "continue"

\* NewManager (manager.go, lines 27-30): the error is logged, no more.
AfterLoad(err) == "continue"

Startup(token, file) ==
    [pc |-> "main", authToken |-> token, file |-> file, loadErr |-> FALSE,
     failed |-> "none", workspaceID |-> << >>]

\* app.New: the steps that can end it are GetClientset (lines 32-35) and
\* CreateProvider (lines 59-62); NewManager is line 85.
New ==
    /\ app.pc = "main"
    /\ \E clientOk \in BOOLEAN, providerOk \in BOOLEAN :
          LET err == LoadFails(app.file)
              failed == IF ~clientOk THEN "clientset"
                        ELSE IF ~providerOk THEN "provider"
                        ELSE IF AfterLoad(err) = "fatal" THEN "load"
                        ELSE "none"
          IN  /\ app' = [app EXCEPT
                            !.pc = IF failed = "none" THEN "created"
                                   ELSE "fatal",
                            !.failed = failed,
                            !.loadErr = clientOk /\ providerOk /\ err]
              /\ feedbacks' = IF clientOk /\ providerOk
                              THEN Load(app.file, disk) ELSE feedbacks
    /\ UNCHANGED << manual, kbQuery, fbCall, kbCall, requests, tasks, kb, pendingMutex,
                    slackMode, kbEnabled, proc, calls, registered,
                    pendingFeedback, disk, checker, rcalls, now, nextTS,
                    fbQuery, fbResult >>

\* Server.Start (main.go, lines 21-24): the routes are set and the server
\* listens, or log.Fatalf ends the process.
Start ==
    /\ app.pc = "created"
    /\ \E listenOk \in BOOLEAN :
          app' = [app EXCEPT !.pc = IF listenOk THEN "serving" ELSE "fatal",
                             !.failed = IF listenOk THEN "none" ELSE "listen"]
    /\ UNCHANGED << manual, kbQuery, fbCall, kbCall, requests, tasks, kb, pendingMutex,
                    slackMode, kbEnabled, proc, calls, registered,
                    pendingFeedback, feedbacks, disk, checker, rcalls, now,
                    nextTS, fbQuery, fbResult >>

\* A process that started over no feedback file and has had no request.
Serving ==
    /\ app = [Startup(<< >>, "missing") EXCEPT !.pc = "serving",
                                                !.loadErr = TRUE]
    /\ requests = NoRequests
    /\ tasks = << >>

\* ------------------------------------------------------- specifications
EmptyMap == [x \in {} |-> 0]

\* NewAlertProcessor (lines 41-57) and NewManager over no file.
Init ==
    /\ slackMode \in SlackModes
    /\ kbEnabled \in BOOLEAN
    /\ proc = [a \in Alerts |-> InitProc]
    /\ calls = [a \in Alerts |-> << >>]
    /\ registered = [a \in Alerts |-> << >>]
    /\ pendingFeedback = EmptyMap
    /\ feedbacks = << >>
    /\ disk = << >>
    /\ checker = InitChecker(slackMode)
    /\ rcalls = << >>
    /\ now = 0
    /\ nextTS = 1
    /\ fbQuery = NoQuery
    /\ fbResult = FbNone
    /\ kb = << >>
    /\ pendingMutex = "free"
    /\ manual = NoManual
    /\ kbQuery = NoKbQuery
    /\ fbCall = NoFbCall
    /\ kbCall = NoKbCall
    /\ Serving

Next ==
    \/ \E a \in Alerts : ProcessAlert(a)
    \/ \E a \in Alerts : SendAlert(a)
    \/ \E a \in Alerts : Categorize(a)
    \/ \E a \in Alerts : FindSimilar(a)
    \/ \E a \in Alerts : GatherDebugInfo(a)
    \/ \E a \in Alerts : PastFeedback(a)
    \/ \E a \in Alerts : AnalyzeDebugInfoStream(a)
    \/ \E a \in Alerts : OnChunk(a)
    \/ \E a \in Alerts : StreamReturns(a)
    \/ \E a \in Alerts : SendFinal(a)
    \/ \E a \in Alerts : storePendingFeedback(a)
    \/ Snapshot
    \/ RUnlock
    \/ Expire
    \/ GetMessageReactions
    \/ Record
    \/ Store
    \/ ReplyToThread
    \/ Remove
    \/ PassEnds
    \/ ClockAdvances

Spec == Init /\ [][Next]_vars

\* ProcessAlert runs on the goroutine the webhook handler starts for the
\* request (handler/webhook.go, lines 71-78), and every call it makes returns:
\* a task that can take a step takes one, and a held lock is released.
PipelineStep(a) ==
    \/ SendAlert(a) \/ Categorize(a) \/ FindSimilar(a) \/ GatherDebugInfo(a)
    \/ PastFeedback(a) \/ AnalyzeDebugInfoStream(a) \/ OnChunk(a)
    \/ StreamReturns(a) \/ SendFinal(a) \/ storePendingFeedback(a)

SpecFair ==
    /\ Spec
    /\ \A a \in Alerts : WF_vars(PipelineStep(a))
    /\ WF_vars(RUnlock)

\* The reconciliation loop and the manual entry point on their own, with a
\* bot token: the analysis of an earlier alert is in the registry.
PriorKeys == {2}
PriorEntry(k) ==
    [Alert |-> [id |-> 0, name |-> "X", ns |-> "prod"], Category |-> CatCpu,
     Analysis |-> ChunksText(<< 1 >>), ThreadTS |-> k - 1, AnalysisTS |-> k,
     Timestamp |-> 0]

InitLoop ==
    /\ slackMode = "bot"
    /\ kbEnabled \in BOOLEAN
    /\ proc = [a \in Alerts |-> InitProc]
    /\ calls = [a \in Alerts |-> << >>]
    /\ registered = [a \in Alerts |-> << >>]
    /\ pendingFeedback = [k \in PriorKeys |-> PriorEntry(k)]
    /\ feedbacks = << >>
    /\ disk = << >>
    /\ checker = InitChecker(slackMode)
    /\ rcalls = << >>
    /\ now = 0
    /\ nextTS = 6
    /\ fbQuery = NoQuery
    /\ fbResult = FbNone
    /\ kb = << >>
    /\ pendingMutex = "free"
    /\ manual = NoManual
    /\ kbQuery = NoKbQuery
    /\ fbCall = NoFbCall
    /\ kbCall = NoKbCall
    /\ Serving

NextLoop ==
    \/ Snapshot
    \/ RUnlock
    \/ Expire
    \/ GetMessageReactions
    \/ Record
    \/ Store
    \/ ReplyToThread
    \/ Remove
    \/ PassEnds
    \/ ClockAdvances
    \/ RecordManualFeedback

SpecLoop == InitLoop /\ [][NextLoop]_vars

\* The loop over a registry of two analyses, both awaiting a reaction.
TwoKeys == {2, 4}

InitTwo ==
    /\ slackMode = "bot"
    /\ kbEnabled \in BOOLEAN
    /\ proc = [a \in Alerts |-> InitProc]
    /\ calls = [a \in Alerts |-> << >>]
    /\ registered = [a \in Alerts |-> << >>]
    /\ pendingFeedback = [k \in TwoKeys |-> PriorEntry(k)]
    /\ feedbacks = << >>
    /\ disk = << >>
    /\ checker = InitChecker(slackMode)
    /\ rcalls = << >>
    /\ now = 0
    /\ nextTS = 6
    /\ fbQuery = NoQuery
    /\ fbResult = FbNone
    /\ kb = << >>
    /\ pendingMutex = "free"
    /\ manual = NoManual
    /\ kbQuery = NoKbQuery
    /\ fbCall = NoFbCall
    /\ kbCall = NoKbCall
    /\ Serving

NextTwo ==
    \/ Snapshot
    \/ RUnlock
    \/ Expire
    \/ GetMessageReactions
    \/ Record
    \/ Store
    \/ ReplyToThread
    \/ Remove
    \/ PassEnds
    \/ ClockAdvances

SpecTwo == InitTwo /\ [][NextTwo]_vars

\* No knowledge base is configured.  Without a bot token ProcessAlert runs
\* from the start; with one, it has returned and its analysis is in the
\* registry for the reconciliation loop.  RecordManualFeedback may be called
\* at any time.
Returned(a) ==
    [InitProc EXCEPT
        !.pc = "done", !.alert = [id |-> a, name |-> "X", ns |-> "prod"],
        !.slackThreadTS = 1, !.category = CatCpu,
        !.debugInfo = [category |-> CatCpu, similar |-> 0],
        !.pastFeedback = GetRelevantFeedback(<< >>, CatCpu, "X", FeedbackLimit),
        !.fullAnalysis = << 1 >>, !.updateCount = 1,
        !.analysisMessageTS = 2, !.analysis = ChunksText(<< 1 >>)]

InitNoKb ==
    /\ slackMode \in {"none", "webhook", "bot"}
    /\ kbEnabled = FALSE
    /\ proc = [a \in Alerts |->
                 IF slackMode = "bot" THEN Returned(a) ELSE InitProc]
    /\ calls = [a \in Alerts |-> << >>]
    /\ registered = [a \in Alerts |->
                       IF slackMode = "bot" THEN << 2 >> ELSE << >>]
    /\ pendingFeedback =
          IF slackMode = "bot"
          THEN [k \in PriorKeys |-> [PriorEntry(k) EXCEPT !.Alert.id = 1]]
          ELSE EmptyMap
    /\ feedbacks = << >>
    /\ disk = << >>
    /\ checker = InitChecker(slackMode)
    /\ rcalls = << >>
    /\ now = 0
    /\ nextTS = IF slackMode = "bot" THEN 3 ELSE 1
    /\ fbQuery = NoQuery
    /\ fbResult = FbNone
    /\ kb = << >>
    /\ pendingMutex = "free"
    /\ manual = NoManual
    /\ kbQuery = NoKbQuery
    /\ fbCall = NoFbCall
    /\ kbCall = NoKbCall
    /\ Serving

NextNoKb ==
    \/ \E a \in Alerts : ProcessAlert(a)
    \/ \E a \in Alerts : SendAlert(a)
    \/ \E a \in Alerts : Categorize(a)
    \/ \E a \in Alerts : FindSimilar(a)
    \/ \E a \in Alerts : GatherDebugInfo(a)
    \/ \E a \in Alerts : PastFeedback(a)
    \/ \E a \in Alerts : AnalyzeDebugInfoStream(a)
    \/ \E a \in Alerts : OnChunk(a)
    \/ \E a \in Alerts : StreamReturns(a)
    \/ \E a \in Alerts : SendFinal(a)
    \/ Snapshot
    \/ RUnlock
    \/ Expire
    \/ GetMessageReactions
    \/ Record
    \/ ReplyToThread
    \/ Remove
    \/ PassEnds
    \/ ClockAdvances
    \/ RecordManualFeedback

SpecNoKb == InitNoKb /\ [][NextNoKb]_vars

\* The same registry while a ProcessAlert is about to post its final message.
\* The call logs start empty here.
InFlight(a) ==
    [InitProc EXCEPT
        !.pc = "final", !.alert = [id |-> a, name |-> "X", ns |-> "prod"],
        !.slackThreadTS = 5, !.category = CatCpu,
        !.debugInfo = [category |-> CatCpu, similar |-> 0],
        !.pastFeedback = GetRelevantFeedback(<< >>, CatCpu, "X", FeedbackLimit),
        !.fullAnalysis = << 1 >>, !.updateCount = 1,
        !.analysis = ChunksText(<< 1 >>)]

InitLock ==
    /\ slackMode = "bot"
    /\ kbEnabled \in BOOLEAN
    /\ proc = [a \in Alerts |-> InFlight(a)]
    /\ calls = [a \in Alerts |-> << >>]
    /\ registered = [a \in Alerts |-> << >>]
    /\ pendingFeedback = [k \in PriorKeys |-> PriorEntry(k)]
    /\ feedbacks = << >>
    /\ disk = << >>
    /\ checker = InitChecker(slackMode)
    /\ rcalls = << >>
    /\ now = 0
    /\ nextTS = 6
    /\ fbQuery = NoQuery
    /\ fbResult = FbNone
    /\ kb = << >>
    /\ pendingMutex = "free"
    /\ manual = NoManual
    /\ kbQuery = NoKbQuery
    /\ fbCall = NoFbCall
    /\ kbCall = NoKbCall
    /\ Serving

NextLock ==
    \/ \E a \in Alerts : SendFinal(a)
    \/ \E a \in Alerts : storePendingFeedback(a)
    \/ Snapshot
    \/ RUnlock
    \/ Expire
    \/ GetMessageReactions
    \/ Record
    \/ Store
    \/ ReplyToThread
    \/ Remove
    \/ PassEnds
    \/ ClockAdvances

SpecLock == InitLock /\ [][NextLock]_vars

\* reactionChecker runs on a goroutine of its own and its ticker fires every
\* 30 seconds (lines 286-295): while the calls of a pass return, the pass
\* takes its next step and the next pass begins.  Time passes, and the
\* ProcessAlert in flight goes on as in SpecFair.
LoopStep ==
    \/ Snapshot \/ RUnlock \/ Expire \/ GetMessageReactions \/ Record
    \/ Store \/ ReplyToThread \/ Remove \/ PassEnds

SpecLockFair ==
    /\ SpecLock
    /\ WF_vars(LoopStep)
    /\ WF_vars(ClockAdvances)
    /\ \A a \in Alerts : WF_vars(PipelineStep(a))

\* Two ProcessAlert tasks, each about to post the final message of its own
\* thread, and the loop, which passes over the registry as soon as it holds
\* an entry.
InitReg ==
    /\ slackMode = "bot"
    /\ kbEnabled \in BOOLEAN
    /\ proc = [t \in Tasks |->
                 [InFlight(t) EXCEPT !.slackThreadTS = 7 - 2 * t]]
    /\ calls = [t \in Tasks |-> << >>]
    /\ registered = [t \in Tasks |-> << >>]
    /\ pendingFeedback = EmptyMap
    /\ feedbacks = << >>
    /\ disk = << >>
    /\ checker = InitChecker(slackMode)
    /\ rcalls = << >>
    /\ now = 0
    /\ nextTS = 6
    /\ fbQuery = NoQuery
    /\ fbResult = FbNone
    /\ kb = << >>
    /\ pendingMutex = "free"
    /\ manual = NoManual
    /\ kbQuery = NoKbQuery
    /\ fbCall = NoFbCall
    /\ kbCall = NoKbCall
    /\ Serving

NextReg ==
    \/ \E t \in Tasks : SendFinal(t)
    \/ \E t \in Tasks : storePendingFeedback(t)
    \/ Snapshot
    \/ RUnlock
    \/ Expire
    \/ GetMessageReactions
    \/ Record
    \/ Store
    \/ ReplyToThread
    \/ Remove
    \/ PassEnds
    \/ ClockAdvances

SpecReg == InitReg /\ [][NextReg]_vars

\* The Manager on its own: any records, any queries.
InitFb ==
    /\ slackMode = "none"
    /\ kbEnabled = FALSE
    /\ proc = [a \in Alerts |-> InitProc]
    /\ calls = [a \in Alerts |-> << >>]
    /\ registered = [a \in Alerts |-> << >>]
    /\ pendingFeedback = EmptyMap
    /\ feedbacks = << >>
    /\ disk = << >>
    /\ checker = InitChecker("none")
    /\ rcalls = << >>
    /\ now = 0
    /\ nextTS = 1
    /\ fbQuery = NoQuery
    /\ fbResult = FbNone
    /\ kb = << >>
    /\ pendingMutex = "free"
    /\ manual = NoManual
    /\ kbQuery = NoKbQuery
    /\ fbCall = NoFbCall
    /\ kbCall = NoKbCall
    /\ Serving

NextFb == FbRecord \/ FbQuery

SpecFb == InitFb /\ [][NextFb]_vars

\* The Manager written to, with saves that fail, across restarts.
NextSave == FbSave \/ Restart

SpecSave == InitFb /\ [][NextSave]_vars

\* The feedback store under every call that reaches it: records written,
\* GetStats, and a ProcessAlert that has its category and goes on, through
\* GetRelevantFeedback, to the call of the provider, with or without a bot
\* token and a workspace ID.
Categorized(a) ==
    [InitProc EXCEPT
        !.pc = "gather", !.alert = [id |-> a, name |-> "X", ns |-> "prod"],
        !.category = CatCpu]

InitAppend ==
    /\ slackMode \in SlackModes
    /\ kbEnabled = FALSE
    /\ proc = [a \in Alerts |-> Categorized(a)]
    /\ calls = [a \in Alerts |-> << >>]
    /\ registered = [a \in Alerts |-> << >>]
    /\ pendingFeedback = EmptyMap
    /\ feedbacks = << >>
    /\ disk = << >>
    /\ checker = InitChecker("none")
    /\ rcalls = << >>
    /\ now = 0
    /\ nextTS = 1
    /\ fbQuery = NoQuery
    /\ fbResult = FbNone
    /\ kb = << >>
    /\ pendingMutex = "free"
    /\ manual = NoManual
    /\ kbQuery = NoKbQuery
    /\ fbCall = NoFbCall
    /\ kbCall = NoKbCall
    /\ \E w \in { << >>, << "W" >> } :
          app = [Startup(<< >>, "missing") EXCEPT !.pc = "serving",
                                                  !.loadErr = TRUE,
                                                  !.workspaceID = w]
    /\ requests = NoRequests
    /\ tasks = << >>

NextAppend ==
    \/ FbAppend
    \/ FbStats
    \/ \E a \in Alerts : GatherDebugInfo(a)
    \/ \E a \in Alerts : PastFeedback(a)

SpecAppend == InitAppend /\ [][NextAppend]_vars

\* The table and the search on their own: any rows, any query, any
\* configured threshold and maximum.
InitKb ==
    /\ slackMode = "none"
    /\ kbEnabled = TRUE
    /\ proc = [a \in Alerts |-> InitProc]
    /\ calls = [a \in Alerts |-> << >>]
    /\ registered = [a \in Alerts |-> << >>]
    /\ pendingFeedback = EmptyMap
    /\ feedbacks = << >>
    /\ disk = << >>
    /\ checker = InitChecker("none")
    /\ rcalls = << >>
    /\ now = 0
    /\ nextTS = 1
    /\ fbQuery = NoQuery
    /\ fbResult = FbNone
    /\ kb = << >>
    /\ pendingMutex = "free"
    /\ manual = NoManual
    /\ \E threshold \in ConfiguredThresholds, max \in 0..MaxResults :
          kbQuery = KbConfig(threshold, max)
    /\ fbCall = NoFbCall
    /\ kbCall = NoKbCall
    /\ Serving

NextKb == KbInsert \/ KbFindSimilar

SpecKb == InitKb /\ [][NextKb]_vars

\* Store on its own: cases with and without an ID, over a table that
\* starts empty.
InitStore == InitKb /\ kbQuery = KbConfig(0, 0)

NextStore == KbStoreCase

SpecStore == InitStore /\ [][NextStore]_vars

\* The process from main() on, started over no feedback file: webhook
\* requests with and without a configured token, and the goroutines they
\* start.
StoredBefore == Feedback(1, "X", CatCpu, "prod", NoAnalysis, TRUE, 0)

InitMain(tokens, files) ==
    /\ slackMode = "none"
    /\ kbEnabled = FALSE
    /\ proc = [t \in Tasks |-> InitProc]
    /\ calls = [a \in Alerts |-> << >>]
    /\ registered = [a \in Alerts |-> << >>]
    /\ pendingFeedback = EmptyMap
    /\ feedbacks = << >>
    /\ \E token \in tokens, file \in files :
          /\ app = Startup(token, file)
          /\ disk = IF file \in {"valid", "unreadable"}
                    THEN Encode(<< StoredBefore >>) ELSE << >>
    /\ requests = NoRequests
    /\ tasks = << >>
    /\ checker = InitChecker("none")
    /\ rcalls = << >>
    /\ now = 0
    /\ nextTS = 1
    /\ fbQuery = NoQuery
    /\ fbResult = FbNone
    /\ kb = << >>
    /\ pendingMutex = "free"
    /\ manual = NoManual
    /\ kbQuery = NoKbQuery
    /\ fbCall = NoFbCall
    /\ kbCall = NoKbCall

InitApp == InitMain(AuthTokens, {"missing"})

NextApp ==
    \/ New
    \/ Start
    \/ HandleWebhook
    \/ \E t \in Tasks : RangeAlerts(t)
    \/ \E t \in Tasks : ProcessAlertReturns(t)

SpecApp == InitApp /\ [][NextApp]_vars

\* Startup over a feedback file in any state, up to the requests the server
\* then accepts.
InitStart == InitMain({ << >> }, FileStates)

NextStart == New \/ Start \/ HandleWebhook

SpecStart == InitStart /\ [][NextStart]_vars

\* ------------------------------------------------------------- properties
Finished(a) == proc[a].pc = "done"
Accepted(a) == proc[a].pc # "idle" /\ proc[a].alert.ns # ""
Threaded(a) == IsConfigured /\ proc[a].slackThreadTS # 0

CallsOf(a, ops) == SelectSeq(calls[a], LAMBDA c : c.op \in ops)
IsFinal(c) == c.arg = << "final" >>
FinalCalls(a) == SelectSeq(calls[a], IsFinal)
\* The notifier calls made from the callback.
Pushes(a) ==
    SelectSeq(calls[a],
              LAMBDA c : c.op \in {"SendAnalysisInThread", "UpdateMessage"}
                         /\ ~IsFinal(c))
EntriesOf(a) ==
    { k \in DOMAIN pendingFeedback : pendingFeedback[k].Alert.id = a }
FirstN(n) == [i \in 1..n |-> i]

\* C1: an alert whose namespace label is missing or empty makes ProcessAlert
\* return at once: no call of any collaborator (chat, classifier, knowledge
\* base, collector, feedback lookup, analysis stream) and no registry entry.
C1_NoNamespaceNoCalls ==
    \A a \in Alerts :
        (proc[a].pc # "idle" /\ proc[a].alert.ns = "") =>
            /\ Finished(a)
            /\ calls[a] = << >>
            /\ registered[a] = << >>
            /\ EntriesOf(a) = {}

C1_Witness ==
    \E a \in Alerts :
        Finished(a) /\ proc[a].alert.ns = "" /\ HasBotToken /\ kbEnabled

C3_Positive == { "white_check_mark", "heavy_check_mark", "coche_blanche" }
C3_Negative == { "x", "cross", "negative_squared_cross_mark" }
C3_Deciding(reactions) ==
    { i \in 1..Len(reactions) : reactions[i] \in C3_Positive \cup C3_Negative }
RecordCalls(ts) ==
    SelectSeq(rcalls, LAMBDA c : c.op = "RecordFeedback" /\ c.ts = ts)
RecordsOfThread(thread) ==
    { i \in 1..Len(feedbacks) : feedbacks[i].SlackThread = thread }

\* C3: after a successful reaction lookup for a non-expired entry, the first
\* listed name that is a positive or a negative synonym decides: the entry
\* goes on to be recorded with that verdict, and once recorded the store
\* holds exactly one record for it, with isCorrect of that verdict; with no
\* such name nothing is recorded and the entry stays in the registry.
C3_FirstSynonymDecides ==
    /\ checker.last.ts # 0 =>
          LET r == checker.last.reactions
              dec == C3_Deciding(r)
          IN  IF dec # {}
              THEN /\ checker.pc = "record"
                   /\ Current.AnalysisTS = checker.last.ts
                   /\ checker.isCorrect =
                        (r[CHOOSE i \in dec : \A j \in dec : i <= j]
                            \in C3_Positive)
                   /\ RecordsOfThread(Current.ThreadTS) = {}
              ELSE /\ checker.pc = "loop"
                   /\ checker.last.ts \in DOMAIN pendingFeedback
                   /\ RecordCalls(checker.last.ts) = << >>
                   /\ RecordsOfThread(
                          pendingFeedback[checker.last.ts].ThreadTS) = {}
    /\ checker.pc \in {"store", "reply", "delete"} =>
          /\ Cardinality(RecordsOfThread(Current.ThreadTS)) = 1
          /\ \A i \in RecordsOfThread(Current.ThreadTS) :
                 feedbacks[i].IsCorrect = checker.isCorrect
          /\ Len(RecordCalls(Current.AnalysisTS)) = 1
    /\ \A a \in Alerts :
          Cardinality(RecordsOfThread(proc[a].slackThreadTS))
              <= Len(registered[a])

C3_Witness ==
    /\ checker.pc = "record"
    /\ checker.last.reactions = << "x", "white_check_mark" >>
    /\ ~checker.isCorrect

\* C4: a step of the reconciliation pass that examines an entry older than
\* 24 hours deletes the entry and goes to the next one, with no reaction
\* lookup, no feedback record, no knowledge-base store and no reply.
C4_ExpiredIsDropped ==
    [][ ( /\ checker.pc = "loop"
          /\ checker.i <= Len(checker.pendingList)
          /\ now - checker.pendingList[checker.i].Timestamp > 24
          /\ checker' # checker )
        => ( /\ checker.pendingList[checker.i].AnalysisTS
                    \notin DOMAIN pendingFeedback'
             /\ checker'.pc = "loop"
             /\ checker'.i = checker.i + 1
             /\ rcalls' = rcalls
             /\ feedbacks' = feedbacks
             /\ disk' = disk ) ]_vars

C4_Witness ==
    /\ checker.pc = "loop"
    /\ checker.i = 2
    /\ Len(checker.pendingList) = 1
    /\ now - checker.pendingList[1].Timestamp > 24
    /\ rcalls = << >>
    /\ feedbacks = << >>
    /\ DOMAIN pendingFeedback = {}

\* What C5 says of every push, whatever it does: it comes at a multiple of
\* 10 chunks, one push per multiple, carrying all the chunks so far.
PushesEveryTenth(a) ==
    /\ Len(Pushes(a)) = proc[a].updateCount \div 10
    /\ \A i \in 1..Len(Pushes(a)) :
          /\ Pushes(a)[i].n = 10 * i
          /\ Pushes(a)[i].text = ProgressText(FirstN(10 * i))

\* C5, as claimed: with a thread handle, pushes come only at multiples of 10
\* chunks with all the chunks so far; the push at the 10th chunk creates a
\* threaded message and captures its handle, every later push updates that
\* message, and no second message is created while streaming.
C5_FirstCreatesRestUpdate ==
    \A a \in Alerts :
        (Accepted(a) /\ Threaded(a)) =>
            /\ PushesEveryTenth(a)
            /\ \A i \in 1..Len(Pushes(a)) :
                  IF i = 1
                  THEN /\ Pushes(a)[i].op = "SendAnalysisInThread"
                       /\ Pushes(a)[i].created
                       /\ Pushes(a)[i].ts # 0
                  ELSE /\ Pushes(a)[i].op = "UpdateMessage"
                       /\ Pushes(a)[i].ts = Pushes(a)[1].ts

\* C5, amended: with a thread handle, pushes come only at multiples of 10
\* chunks with all the chunks so far; a push creates a threaded message as
\* long as no message handle has been captured, and from the first create
\* that returns a handle on, every later push updates that message and no
\* further message is created.
C5_CreateUntilHandleThenUpdate ==
    \A a \in Alerts :
        (Accepted(a) /\ Threaded(a)) =>
            /\ PushesEveryTenth(a)
            /\ \A i \in 1..Len(Pushes(a)) :
                  LET captured ==
                        { j \in 1..(i - 1) : Pushes(a)[j].ts # 0
                              /\ Pushes(a)[j].op = "SendAnalysisInThread" }
                  IN  IF captured = {}
                      THEN /\ Pushes(a)[i].op = "SendAnalysisInThread"
                           /\ Pushes(a)[i].text.hdr = "progress"
                      ELSE /\ Pushes(a)[i].op = "UpdateMessage"
                           /\ ~Pushes(a)[i].created
                           /\ Cardinality(captured) = 1
                           /\ \A j \in captured :
                                  Pushes(a)[i].ts = Pushes(a)[j].ts
            /\ (proc[a].pc = "stream" /\ Len(Pushes(a)) > 0) =>
                  proc[a].analysisMessageTS = Pushes(a)[Len(Pushes(a))].ts

C5_Witness ==
    \E a \in Alerts :
        /\ Len(Pushes(a)) = 2
        /\ Pushes(a)[1].op = "SendAnalysisInThread" /\ Pushes(a)[1].ts # 0
        /\ Pushes(a)[2].op = "UpdateMessage" /\ Pushes(a)[2].ok
        /\ Pushes(a)[2].n = 20

\* A message handle was captured while streaming.
StreamingMessage(a) ==
    \E i \in 1..Len(Pushes(a)) : Pushes(a)[i].ts # 0

\* C6, as claimed: when ProcessAlert is over for an alert with a thread
\* handle, it made exactly one final call, carrying the analysis and the
\* feedback instructions (an update of the streaming message if there is
\* one, else a create), and registered exactly one entry, under the handle
\* of the finalized message.
C6_OneFinalOneEntry ==
    \A a \in Alerts :
        (Finished(a) /\ Accepted(a) /\ Threaded(a)) =>
            /\ Len(FinalCalls(a)) = 1
            /\ FinalCalls(a)[1].text = CompleteText(proc[a].analysis)
            /\ FinalCalls(a)[1].op =
                  IF \E i \in 1..Len(Pushes(a)) : Pushes(a)[i].created
                  THEN "UpdateMessage"
                  ELSE "SendAnalysisInThread"
            /\ Len(registered[a]) = 1
            /\ registered[a][1] = FinalCalls(a)[1].ts
            /\ registered[a][1] # 0

\* C6, amended: ... and registered exactly one entry under the handle of the
\* finalized message when that message has a handle; when the final create
\* failed or returned no handle, no entry is registered.
C6_OneFinalEntryIfHandle ==
    \A a \in Alerts :
        (Finished(a) /\ Accepted(a) /\ Threaded(a)) =>
            /\ Len(FinalCalls(a)) = 1
            /\ FinalCalls(a)[1].text = CompleteText(proc[a].analysis)
            /\ FinalCalls(a)[1].op =
                  IF StreamingMessage(a) THEN "UpdateMessage"
                  ELSE "SendAnalysisInThread"
            /\ StreamingMessage(a) =>
                  FinalCalls(a)[1].ts = Pushes(a)[Len(Pushes(a))].ts
            /\ IF FinalCalls(a)[1].ts # 0
               THEN registered[a] = << FinalCalls(a)[1].ts >>
               ELSE registered[a] = << >>
            /\ \A k \in EntriesOf(a) :
                  /\ k = FinalCalls(a)[1].ts
                  /\ pendingFeedback[k].AnalysisTS = k
                  /\ pendingFeedback[k].Analysis = proc[a].analysis

C6_Witness ==
    \E a \in Alerts :
        /\ Finished(a) /\ Threaded(a)
        /\ proc[a].updateCount = PushEvery - 1
        /\ FinalCalls(a)[1].op = "SendAnalysisInThread"
        /\ EntriesOf(a) = { FinalCalls(a)[1].ts }

PositionOf(a, op) ==
    CHOOSE i \in 1..Len(calls[a]) : calls[a][i].op = op

\* Every stage after the namespace check was run, once and in order.
StagesRan(a) ==
    /\ \A op \in {"CategorizeAlert", "GatherDebugInfo", "GetRelevantFeedback",
                  "AnalyzeDebugInfoStream"} : Len(CallsOf(a, {op})) = 1
    /\ Len(CallsOf(a, {"SendAlert"})) = IF IsConfigured THEN 1 ELSE 0
    /\ Len(CallsOf(a, {"FindSimilar"})) = IF kbEnabled THEN 1 ELSE 0
    /\ Len(FinalCalls(a)) = IF IsConfigured THEN 1 ELSE 0
    /\ PositionOf(a, "CategorizeAlert") < PositionOf(a, "GatherDebugInfo")
    /\ PositionOf(a, "GatherDebugInfo") < PositionOf(a, "GetRelevantFeedback")
    /\ PositionOf(a, "GetRelevantFeedback")
           < PositionOf(a, "AnalyzeDebugInfoStream")
    /\ \A i \in 1..Len(calls[a]) :
           IsFinal(calls[a][i]) =>
               PositionOf(a, "AnalyzeDebugInfoStream") < i

\* C7: an alert with a namespace label is always carried to the end of
\* ProcessAlert, and at the end every later stage has run (classification,
\* diagnostics collection, feedback lookup, the analysis call and, with a
\* notifier configured, the final posting attempt), whichever of the chat
\* post, the classifier, the knowledge-base search and the stream failed.
C7_NoFailureStopsThePipeline ==
    /\ [](\A a \in Alerts : (Finished(a) /\ Accepted(a)) => StagesRan(a))
    /\ \A a \in Alerts : Accepted(a) ~> Finished(a)

C7_Witness ==
    \E a \in Alerts :
        /\ Finished(a) /\ Accepted(a) /\ proc[a].err
        /\ \E i \in 1..Len(calls[a]) :
              calls[a][i].op = "SendAlert" /\ ~calls[a][i].ok
        /\ \E i \in 1..Len(calls[a]) :
              calls[a][i].op = "CategorizeAlert" /\ ~calls[a][i].ok
        /\ \E i \in 1..Len(calls[a]) :
              calls[a][i].op = "FindSimilar" /\ ~calls[a][i].ok
        /\ \E i \in 1..Len(calls[a]) :
              IsFinal(calls[a][i]) /\ ~calls[a][i].ok

\* C8: the category ProcessAlert works with is a member of the fixed set,
\* whatever the classifier's model answered: the one given to the
\* diagnostics collector and to GetRelevantFeedback, the one in the
\* registry entry, and "unknown" when the call failed.
C8_FixedSet ==
    { << "p", "o", "d", "-", "c", "r", "a", "s", "h" >>,
      << "p", "o", "d", "-", "r", "e", "s", "t", "a", "r", "t" >>,
      << "m", "e", "m", "o", "r", "y" >>, << "c", "p", "u" >>,
      << "d", "i", "s", "k" >>, << "n", "e", "t", "w", "o", "r", "k" >>,
      << "s", "e", "r", "v", "i", "c", "e" >>, << "h", "p", "a" >>,
      << "n", "o", "d", "e" >>,
      << "d", "e", "p", "l", "o", "y", "m", "e", "n", "t" >>,
      << "u", "n", "k", "n", "o", "w", "n" >> }

NameMatch(i) == feedbacks[i].AlertName = fbQuery.alertName
CategoryMatch(i) == feedbacks[i].Category = fbQuery.category

\* C9: GetRelevantFeedback returns at most limit records, each of the
\* requested name or category; the records of the requested name come
\* before the others, and each of the two groups is newest first.
C9_AtMostLimitNameFirst ==
    fbQuery.asked =>
        LET idx == fbResult.idx
        IN  /\ Len(idx) <= fbQuery.limit
            /\ \A k \in 1..Len(idx) :
                  /\ idx[k] \in 1..fbQuery.size
                  /\ NameMatch(idx[k]) \/ CategoryMatch(idx[k])
            /\ \A j, k \in 1..Len(idx) :
                  j < k =>
                      /\ NameMatch(idx[k]) => NameMatch(idx[j])
                      /\ (NameMatch(idx[j]) <=> NameMatch(idx[k]))
                             => idx[j] > idx[k]

C9_Witness ==
    /\ fbQuery.asked
    /\ fbQuery.limit = 3
    /\ fbResult.idx = << 3, 1, 2 >>
    /\ NameMatch(3) /\ NameMatch(1) /\ ~NameMatch(2)

\* C10: GetRelevantFeedback returns no record twice and, with k records of
\* the requested name and m records of the requested category under another
\* name, returns exactly min(limit, k + m) records.
C10_NoDuplicateFillsSlots ==
    fbQuery.asked =>
        LET idx == fbResult.idx
            k == Cardinality({ i \in 1..fbQuery.size : NameMatch(i) })
            m == Cardinality({ i \in 1..fbQuery.size :
                                   CategoryMatch(i) /\ ~NameMatch(i) })
        IN  /\ \A i, j \in 1..Len(idx) : i # j => idx[i] # idx[j]
            /\ Len(idx) = Min(fbQuery.limit, k + m)

C10_DistinctRecordDropped ==
    /\ fbQuery.asked
    /\ fbQuery.size = 2
    /\ fbQuery.limit = 2
    /\ NameMatch(1) /\ ~NameMatch(2) /\ CategoryMatch(2)
    /\ feedbacks[1].Timestamp = feedbacks[2].Timestamp
    /\ fbResult.idx = << 1 >>

\* C11: KnowledgeBase.Store is called only after a feedback record with
\* isCorrect = true was written: in the reconciliation pass only after a
\* successful lookup and a positive verdict for that entry (so never for an
\* expired entry, a negative verdict or no verdict), in RecordManualFeedback
\* only when isCorrect is true; every row of the table has validated = true.
C11_StoreOnlyForCorrect ==
    /\ \A i \in 1..Len(rcalls) :
          rcalls[i].op = "Store" =>
              /\ rcalls[i].correct
              /\ \E j \in 1..(i - 1) :
                    /\ rcalls[j].op = "GetMessageReactions"
                    /\ rcalls[j].ts = rcalls[i].ts /\ rcalls[j].ok
              /\ \E j \in 1..(i - 1) :
                    /\ rcalls[j].op = "RecordFeedback"
                    /\ rcalls[j].ts = rcalls[i].ts
                    /\ rcalls[j].ok /\ rcalls[j].correct
    /\ manual.store # "none" =>
          manual.isCorrect /\ feedbacks[manual.recorded].IsCorrect
    /\ \A i \in 1..Len(kb) : kb[i].Validated
    /\ Len(kb) <= Cardinality({ i \in 1..Len(feedbacks) :
                                    feedbacks[i].IsCorrect })

C11_Witness ==
    /\ Len(kb) = 1
    /\ \E i \in 1..Len(rcalls) : rcalls[i].op = "Store" /\ rcalls[i].ok
    /\ manual.calls = 1 /\ ~manual.isCorrect /\ manual.returned = "nil"

\* C12: with no knowledge base, ProcessAlert never calls FindSimilar and
\* hands the analysis call the collector's output with no similar-cases
\* section; RecordManualFeedback and the reconciliation pass write the
\* feedback record of a positive verdict and make no Store call.
C12_NoKnowledgeBaseNoStore ==
    ~kbEnabled =>
        /\ \A a \in Alerts :
              /\ CallsOf(a, {"FindSimilar"}) = << >>
              /\ proc[a].pc \in {"feedback", "analyze", "stream", "final",
                                 "store", "done"}
                 /\ Accepted(a)
                     => proc[a].debugInfo =
                            [category |-> proc[a].category, similar |-> 0]
              /\ \A i \in 1..Len(calls[a]) :
                     calls[a][i].op = "AnalyzeDebugInfoStream"
                         => calls[a][i].n = 0
        /\ \A i \in 1..Len(rcalls) : rcalls[i].op # "Store"
        /\ checker.pc # "store"
        /\ kb = << >>
        /\ manual.calls > 0 =>
              /\ manual.store = "none"
              /\ Len(feedbacks) >= manual.recorded
              /\ feedbacks[manual.recorded].IsCorrect = manual.isCorrect
        /\ \A i \in 1..Len(rcalls) :
              (rcalls[i].op = "RecordFeedback" /\ rcalls[i].correct) =>
                  \E k \in 1..Len(feedbacks) :
                      feedbacks[k].IsCorrect /\ feedbacks[k].SlackThread # 0

C12_Witness ==
    /\ ~kbEnabled
    /\ \E a \in Alerts :
          Finished(a) /\ CallsOf(a, {"AnalyzeDebugInfoStream"}) # << >>
    /\ manual.calls = 1 /\ manual.isCorrect /\ manual.returned = "nil"

C12_LoopWitness ==
    /\ ~kbEnabled
    /\ checker.pc = "delete" /\ checker.isCorrect
    /\ \E i \in 1..Len(rcalls) : rcalls[i].op = "ReplyToThread"
    /\ manual.calls = 1 /\ manual.isCorrect /\ manual.returned = "nil"
    /\ Len(feedbacks) = 2

\* C13: a failed Store or a failed reply after a positive verdict leaves
\* the feedback record written: RecordManualFeedback still returns no
\* error, and the reconciliation pass goes on to delete the entry, which
\* is gone when the pass has moved past it.
C13_SideEffectFailuresDoNotBlock ==
    /\ manual.store = "err" =>
          /\ manual.returned = "nil"
          /\ feedbacks[manual.recorded].IsCorrect
          /\ Len(disk) >= manual.recorded
    /\ \A i \in 1..Len(rcalls) :
          (rcalls[i].op \in {"Store", "ReplyToThread"} /\ ~rcalls[i].ok) =>
              LET left == { k \in DOMAIN pendingFeedback :
                              IF rcalls[i].op = "Store"
                              THEN k = rcalls[i].ts
                              ELSE pendingFeedback[k].ThreadTS = rcalls[i].ts }
              IN  /\ \E k \in 1..Len(feedbacks) :
                        /\ feedbacks[k].SlackThread # 0
                        /\ feedbacks[k].IsCorrect = rcalls[i].correct
                  /\ IF left # {}
                     THEN /\ checker.pc \in {"reply", "delete"}
                          /\ left = { Current.AnalysisTS }
                     ELSE checker.pc \in {"loop", "idle"}

C13_Witness ==
    /\ checker.pc = "idle"
    /\ DOMAIN pendingFeedback = {}
    /\ \E i \in 1..Len(rcalls) : rcalls[i].op = "Store" /\ ~rcalls[i].ok
    /\ \E i \in 1..Len(rcalls) : rcalls[i].op = "ReplyToThread" /\ ~rcalls[i].ok
    /\ manual.store = "err"
    /\ Len(feedbacks) = 2

\* C14: the reconciliation pass holds the registry lock only between the
\* RLock and the RUnlock of its snapshot: wherever its next step is the
\* reaction lookup, RecordFeedback, Store or the reply, the lock is free,
\* and a ProcessAlert that is about to register its analysis can do so.
C14_LockFreeDuringCalls ==
    /\ pendingMutex # "free" => checker.pc = "locked"
    /\ checker.pc \in {"loop", "record", "store", "reply", "delete"}
           => pendingMutex = "free"
    /\ \A a \in Alerts :
          (proc[a].pc = "store" /\ checker.pc # "locked")
              => ENABLED storePendingFeedback(a)

C14_Witness ==
    /\ checker.pc = "reply"
    /\ \E a \in Alerts :
          /\ Finished(a)
          /\ Len(registered[a]) = 1
          /\ registered[a][1] \in DOMAIN pendingFeedback
          /\ \A i \in 1..Len(checker.pendingList) :
                checker.pendingList[i].AnalysisTS # registered[a][1]

\* C15: every firing alert has a task of its own, so that while one alert is
\* inside ProcessAlert (its stream may never end) no other firing alert of the
\* same payload is left waiting for it.
C15_EachAlertOnItsOwnTask ==
    \A t \in 1..Len(tasks) :
        proc[t].pc # "idle"
            => \A j \in (tasks[t].i + 1)..Len(tasks[t].alerts) :
                   ~Firing(tasks[t].alerts[j])

\* The request was answered with 200, the first alert of its payload is inside
\* ProcessAlert and the second, firing too, has not been entered; the
\* goroutine of another request has gone through its whole payload meanwhile.
C15_SecondAlertWaits ==
    \E t \in 1..Len(tasks), u \in 1..Len(tasks) :
        /\ requests.status = 200
        /\ tasks[t].i = 1
        /\ proc[t].pc = "post"
        /\ Len(tasks[t].alerts) = 2
        /\ Firing(tasks[t].alerts[2])
        /\ u # t
        /\ Len(tasks[u].alerts) = 2
        /\ Firing(tasks[u].alerts[2])
        /\ tasks[u].i = 3

\* C16: with a token configured, a request reaches HandleWebhook exactly when
\* its Authorization header is "Bearer " followed by the token; any other
\* request is answered 401, its body is not parsed and no goroutine is
\* started. With no token configured every request reaches HandleWebhook.
C16_HandlerBehindToken ==
    [][ requests'.n # requests.n
          => IF \/ app.authToken = << >>
                \/ requests'.header = Bearer \o Space \o app.authToken
             THEN /\ requests'.reached
                  /\ requests'.status # 401
             ELSE /\ requests'.status = 401
                  /\ ~requests'.reached
                  /\ ~requests'.parsed
                  /\ ~requests'.launched
                  /\ tasks' = tasks
                  /\ proc' = proc ]_vars

\* A request with another token is turned away after one with the token
\* started a goroutine.
C16_Witness ==
    /\ app.authToken = Token
    /\ requests.n = 2
    /\ requests.header = Bearer \o Space \o OtherToken
    /\ requests.status = 401
    /\ Len(tasks) = 1

C18_SavedIsWholeStore ==
    /\ (fbCall.op = "RecordFeedback" /\ ~fbCall.err)
          => /\ Len(disk) = Len(feedbacks)
             /\ disk = Encode(feedbacks)
             /\ feedbacks[Len(feedbacks)] = fbCall.fb
             /\ Load("valid", disk) = feedbacks
             /\ Load("valid", disk)[Len(disk)] = fbCall.fb
    /\ (fbCall.op = "NewManager" /\ ~fbCall.err)
          => /\ feedbacks = Decode(disk)
             /\ disk = Encode(feedbacks)

\* A save failed, a later one succeeded: the file has all three records,
\* the one of the failed save too.
C18_Witness ==
    /\ fbCall.op = "RecordFeedback"
    /\ ~fbCall.err
    /\ fbCall.failedOnce
    /\ Len(feedbacks) = 3
    /\ feedbacks[3].Timestamp = 30
    /\ feedbacks[1] # feedbacks[2]

\* C19: no step removes, reorders or changes a record of the feedback store,
\* in memory or in the file; only RecordFeedback adds one, at the end. The
\* link ProcessAlert adds to the Summary of a record it was given is added
\* to its copy only.
C19_AppendOnly ==
    [][ /\ Len(feedbacks') >= Len(feedbacks)
        /\ \A i \in 1..Len(feedbacks) : feedbacks'[i] = feedbacks[i]
        /\ Len(disk') >= Len(disk)
        /\ \A i \in 1..Len(disk) : disk'[i] = disk[i]
        /\ feedbacks' # feedbacks
              => /\ fbCall'.op = "RecordFeedback"
                 /\ Len(feedbacks') = Len(feedbacks) + 1
                 /\ proc' = proc ]_vars

\* ProcessAlert holds a record with the link in its Summary; the record it
\* was copied from, the newer of two, is in the store without the link, and
\* GetStats has counted both.
C19_Witness ==
    \E a \in Alerts :
        /\ proc[a].pc = "analyze"
        /\ Len(proc[a].pastFeedback) = 1
        /\ Len(proc[a].pastFeedback[1].Summary) = 3
        /\ Len(feedbacks) = 2
        /\ feedbacks[2].SlackThread = 5
        /\ feedbacks[2].Summary = AlertSummary
        /\ fbCall.op = "GetStats"
        /\ fbCall.stats = << 2, 2, 0 >>

\* C20: a search that returns no error returns only validated rows whose
\* similarity to the query is at least the threshold, at most maxSimilarCases
\* of them, in order of non-increasing similarity; when no row qualifies the
\* search returns nothing, and its only errors are those of the embedding
\* call and of the database.
C20_FindSimilarContract ==
    kbQuery.asked
      => /\ kbQuery.err = "none"
            => /\ Len(kbQuery.result) <= kbQuery.maxSimilarCases
               /\ \A k \in 1..Len(kbQuery.result) :
                     /\ kbQuery.result[k].Case.Validated
                     /\ kbQuery.result[k].Similarity
                           >= kbQuery.similarityThreshold
                     /\ \E i \in 1..Len(kb) :
                           /\ kb[i] = kbQuery.result[k].Case
                           /\ kbQuery.result[k].Similarity
                                 = 100 - Distance(kb[i].Embedding, kbQuery.q)
               /\ \A k \in 1..(Len(kbQuery.result) - 1) :
                     kbQuery.result[k].Similarity
                        >= kbQuery.result[k + 1].Similarity
         /\ kbQuery.err # "none" => kbQuery.result = << >>
         /\ (\A i \in 1..Len(kb) :
                 ~kb[i].Validated
                 \/ 100 - Distance(kb[i].Embedding, kbQuery.q)
                       < kbQuery.similarityThreshold)
               => /\ kbQuery.result = << >>
                  /\ ENABLED (KbFindSimilar /\ kbQuery'.err = "none"
                                            /\ kbQuery'.q = kbQuery.q)

\* Three rows qualify at two distances, one that is nearer was not
\* validated, and the two nearest validated rows are returned.
C20_Witness ==
    /\ kbQuery.asked
    /\ kbQuery.err = "none"
    /\ kbQuery.similarityThreshold = 50
    /\ kbQuery.maxSimilarCases = 2
    /\ Len(kb) = 3
    /\ Len(kbQuery.result) = 2
    /\ kbQuery.result[1].Similarity = 100
    /\ kbQuery.result[2].Similarity = 71
    /\ \E i \in 1..Len(kb) :
          ~kb[i].Validated /\ kb[i].Embedding = kbQuery.q

\* Nothing qualifies and the search returns nothing, without an error.
C20_EmptyWitness ==
    /\ kbQuery.asked
    /\ kbQuery.err = "none"
    /\ kbQuery.result = << >>
    /\ Len(kb) = 3
    /\ \E i \in 1..Len(kb) : kb[i].Validated

\* C21: a Store with an ID that the table holds already leaves the number of
\* rows as it was: the row found is updated and no row is added.
C21_StoreKeepsRowCount ==
    (kbCall.op = "Store" /\ kbCall.case.ID # 0 /\ kbCall.existed)
        => /\ Len(kb) = kbCall.rows
           /\ Cardinality({ i \in 1..Len(kb) : kb[i].ID = kbCall.case.ID }) = 1

C21_Witness ==
    /\ kbCall.op = "Store"
    /\ kbCall.ok
    /\ kbCall.existed
    /\ kbCall.case.ID \in CaseIDs
    /\ \E i \in 1..Len(kb) :
          /\ kb[i].ID = kbCall.case.ID
          /\ kb[i].Category = kbCall.case.Category
          /\ kb[i].AlertName # kbCall.case.AlertName

\* C25: after a successful Store of a case whose ID the table held already,
\* the row of that ID holds the values of the case in every column.
C25_StoreReplacesEveryColumn ==
    (kbCall.op = "Store" /\ kbCall.ok /\ kbCall.existed)
        => \A i \in 1..Len(kb) :
              kb[i].ID = kbCall.case.ID => kb[i] = KbRow(kbCall.case)

\* What the code does keep: the columns named in DO UPDATE SET are those of
\* the case, the others are those of the first Store of the ID.
C25_Witness ==
    /\ kbCall.op = "Store"
    /\ kbCall.ok
    /\ kbCall.existed
    /\ \E i \in 1..Len(kb) :
          /\ kb[i].ID = kbCall.case.ID
          /\ kb[i].AlertName = "X"
          /\ kbCall.case.AlertName = "Y"
          /\ kb[i].Embedding = EmbeddingOf("Y")

\* The places in the log of the pass of the calls op made for handle ts.
RCallsAt(op, ts) ==
    { i \in 1..Len(rcalls) : rcalls[i].op = op /\ rcalls[i].ts = ts }

LookupFailed(ts) ==
    \E i \in RCallsAt("GetMessageReactions", ts) : ~rcalls[i].ok

PassOver == checker.pc = "loop" /\ checker.i > Len(checker.pendingList)

\* C22: an entry whose lookup failed in a pass is in the registry as it
\* was and no record is written for it; the pass still examines every
\* other entry of its snapshot; and since a snapshot holds the whole
\* registry and every pass looks up each entry of its snapshot that has not
\* expired, the lookup is made again in every later pass while the entry is
\* there.
C22_FailedLookupSkipsEntry ==
    /\ \A j \in 1..Len(checker.pendingList) :
          LET e == checker.pendingList[j]
          IN  LookupFailed(e.AnalysisTS) =>
                 /\ e.AnalysisTS \in DOMAIN pendingFeedback
                 /\ pendingFeedback[e.AnalysisTS] = e
                 /\ RCallsAt("RecordFeedback", e.AnalysisTS) = {}
                 /\ \A k \in 1..Len(feedbacks) :
                       feedbacks[k].SlackThread # e.ThreadTS
    /\ PassOver =>
          \A j \in 1..Len(checker.pendingList) :
             LET e == checker.pendingList[j]
             IN  \/ RCallsAt("GetMessageReactions", e.AnalysisTS) # {}
                 \/ Expired(e) /\ e.AnalysisTS \notin DOMAIN pendingFeedback
    /\ checker.pc = "locked" =>
          { checker.pendingList[j].AnalysisTS :
              j \in 1..Len(checker.pendingList) } = DOMAIN pendingFeedback

\* The lookup of the first entry of the snapshot failed, the second one was
\* resolved in the same pass, and time has passed since the first record:
\* the pass is a later one and has looked the first entry up again.
C22_LaterPassWitness ==
    /\ PassOver
    /\ Len(checker.pendingList) = 1
    /\ LookupFailed(checker.pendingList[1].AnalysisTS)
    /\ checker.pendingList[1].AnalysisTS \in DOMAIN pendingFeedback
    /\ Len(feedbacks) = 1
    /\ feedbacks[1].Timestamp < now

\* A lookup fails and the next entry of the same snapshot is resolved.
C22_Witness ==
    /\ Len(checker.pendingList) = 2
    /\ LookupFailed(checker.pendingList[1].AnalysisTS)
    /\ RCallsAt("RecordFeedback", checker.pendingList[2].AnalysisTS) # {}
    /\ checker.pendingList[1].AnalysisTS \in DOMAIN pendingFeedback

\* The handles an entry may have in SpecLock: those of the registry at the
\* start, and the one the message of the ProcessAlert in flight is given.
LockKeys == PriorKeys \cup { InFlight(a).slackThreadTS + 1 : a \in Alerts }

\* The clock of the model stops at its last step; an entry is followed to
\* its removal when that step is past its expiry.
LastHour == MaxClock - (MaxClock % HoursPerStep)
WithinHorizon(pending) == LastHour - pending.Timestamp > ExpiryHours

\* C23: every entry of the registry is removed from it in the end, and an
\* entry that a pass comes to when it is older than 24 hours is deleted
\* there and then, without a lookup.
C23_EveryEntryRemoved ==
    /\ \A k \in LockKeys :
          (k \in DOMAIN pendingFeedback /\ WithinHorizon(pendingFeedback[k]))
              ~> (k \notin DOMAIN pendingFeedback)
    /\ []((checker.pc = "loop" /\ checker.i <= Len(checker.pendingList)
             /\ Expired(Current))
            => (ENABLED Expire /\ ~ENABLED GetMessageReactions))

\* The entry ProcessAlert inserted on arrival of the alert has gone without
\* any record: it was deleted as expired.
C23_Witness ==
    /\ \E a \in Alerts :
          /\ registered[a] # << >>
          /\ registered[a][1] \notin DOMAIN pendingFeedback
    /\ DOMAIN pendingFeedback = {}
    /\ feedbacks = << >>
    /\ checker.pc = "idle"

\* The entries of the snapshot the pass has gone past, and the one it is at.
Passed == { checker.pendingList[j] : j \in 1..Min(checker.i - 1,
                                                  Len(checker.pendingList)) }

Before(i, j) == i < j

\* C24: within a pass, for one entry: Store comes after a RecordFeedback
\* of a positive verdict and only with a knowledge base, the reply comes
\* after RecordFeedback and after the Store if there is one, and an entry
\* that was looked up is deleted only after RecordFeedback was called and,
\* when it succeeded, after the Store due and the reply.
C24_RecordStoreReplyDelete ==
    \A j \in 1..Len(checker.pendingList) :
       LET e == checker.pendingList[j]
           recs == RCallsAt("RecordFeedback", e.AnalysisTS)
           stores == RCallsAt("Store", e.AnalysisTS)
           replies == RCallsAt("ReplyToThread", e.ThreadTS)
           gone == e.AnalysisTS \notin DOMAIN pendingFeedback
       IN  /\ \A s \in stores :
                 /\ kbEnabled
                 /\ rcalls[s].correct
                 /\ \E r \in recs : Before(r, s) /\ rcalls[r].ok
           /\ \A y \in replies :
                 /\ \E r \in recs : Before(r, y) /\ rcalls[r].ok
                 /\ \A s \in stores : Before(s, y)
                 /\ (rcalls[y].correct /\ kbEnabled) => stores # {}
           /\ (gone /\ RCallsAt("GetMessageReactions", e.AnalysisTS) # {}) =>
                 /\ recs # {}
                 /\ \A r \in recs : rcalls[r].ok => replies # {}
           /\ (~gone /\ recs # {}) =>
                 /\ checker.i = j
                 /\ checker.pc \in {"store", "reply", "delete"}

\* A positive reaction with a knowledge base: the four steps were taken in
\* this order and the entry is gone.
C24_Witness ==
    \E e \in Passed :
        /\ e.AnalysisTS \notin DOMAIN pendingFeedback
        /\ \E r \in RCallsAt("RecordFeedback", e.AnalysisTS),
              s \in RCallsAt("Store", e.AnalysisTS),
              y \in RCallsAt("ReplyToThread", e.ThreadTS) :
              Before(r, s) /\ Before(s, y)

\* C28: when RecordFeedback returns an error for a resolved entry, the
\* pass makes no Store and no reply for it and goes straight to the
\* deletion: the entry is gone when the pass has moved past it.
C28_RecordErrorStillDeletes ==
    \A j \in 1..Len(checker.pendingList) :
       LET e == checker.pendingList[j]
       IN  (\E r \in RCallsAt("RecordFeedback", e.AnalysisTS) : ~rcalls[r].ok)
              => /\ RCallsAt("Store", e.AnalysisTS) = {}
                 /\ RCallsAt("ReplyToThread", e.ThreadTS) = {}
                 /\ IF e.AnalysisTS \in DOMAIN pendingFeedback
                    THEN checker.i = j /\ checker.pc = "delete"
                    ELSE checker.i > j

\* A positive reaction with a knowledge base configured, RecordFeedback
\* failed, and the entry has been deleted in the same pass.
C28_Witness ==
    /\ kbEnabled
    /\ \E e \in Passed :
          /\ e.AnalysisTS \notin DOMAIN pendingFeedback
          /\ \E r \in RCallsAt("RecordFeedback", e.AnalysisTS) :
                ~rcalls[r].ok /\ rcalls[r].correct

RecordsOf(thread) ==
    { i \in 1..Len(feedbacks) : feedbacks[i].SlackThread = thread }

\* C26: one loop runs the passes one after the other, and an entry is
\* resolved at most once over all of them: no thread has two records, a
\* pass calls RecordFeedback, Store and ReplyToThread at most once for an
\* entry and the last two only with the RecordFeedback of that pass, a
\* snapshot holds an entry once, and the table has no more rows than there
\* are positive records.
C26_ResolvedAtMostOnce ==
    /\ \A i \in 1..Len(feedbacks) :
          Cardinality(RecordsOf(feedbacks[i].SlackThread)) = 1
    /\ \A c \in 1..Len(rcalls) :
          /\ Cardinality(RCallsAt(rcalls[c].op, rcalls[c].ts)) = 1
          /\ (checker.pc # "idle"
                /\ rcalls[c].op \in {"Store", "ReplyToThread"}) =>
                \E j \in 1..Len(checker.pendingList) :
                   LET e == checker.pendingList[j]
                   IN  /\ rcalls[c].ts = IF rcalls[c].op = "Store"
                                          THEN e.AnalysisTS ELSE e.ThreadTS
                       /\ \E r \in RCallsAt("RecordFeedback", e.AnalysisTS) :
                             Before(r, c)
    /\ \A i, j \in 1..Len(checker.pendingList) :
          checker.pendingList[i].AnalysisTS = checker.pendingList[j].AnalysisTS
              => i = j
    /\ Len(kb) <= Cardinality({ i \in 1..Len(feedbacks) :
                                 feedbacks[i].IsCorrect })

\* The entry of the registry and the one ProcessAlert inserted were both
\* resolved by a positive reaction, in two passes at different hours.
C26_Witness ==
    /\ DOMAIN pendingFeedback = {}
    /\ \E a \in Alerts : registered[a] # << >>
    /\ Len(feedbacks) = 2
    /\ feedbacks[1].Timestamp < feedbacks[2].Timestamp
    /\ feedbacks[1].IsCorrect /\ feedbacks[2].IsCorrect
    /\ kbEnabled => Len(kb) = 2

SnapshotKeys ==
    { checker.pendingList[j].AnalysisTS : j \in 1..Len(checker.pendingList) }

\* A step takes from the registry only the entry the pass is at, which is
\* one of its snapshot.
DeletesOnlyCurrent ==
    \A k \in DOMAIN pendingFeedback :
        k \notin DOMAIN pendingFeedback' =>
            /\ checker.pc \in {"loop", "delete"}
            /\ checker.i <= Len(checker.pendingList)
            /\ k = Current.AnalysisTS

\* A step of storePendingFeedback leaves its entry in the registry, under
\* the handle of its message, and every entry that was there.
InsertionKept ==
    \A t \in Tasks :
        registered'[t] # registered[t] =>
            LET k == proc[t].analysisMessageTS
            IN  /\ k \in DOMAIN pendingFeedback'
                /\ pendingFeedback'[k].ThreadTS = proc[t].slackThreadTS
                /\ \A x \in DOMAIN pendingFeedback \ {k} :
                      /\ x \in DOMAIN pendingFeedback'
                      /\ pendingFeedback'[x] = pendingFeedback[x]

\* C27: an entry inserted after the snapshot of a pass is not deleted by
\* that pass, for a pass deletes only entries of its snapshot, and it is in
\* the next snapshot, for a snapshot is the whole registry; the insertions
\* of several tasks, whose handles differ, are all in the registry as long
\* as nothing was resolved and nothing has expired.
C27_NoRegistrationLost ==
    /\ [][DeletesOnlyCurrent /\ InsertionKept]_vars
    /\ [](checker.pc = "locked" => SnapshotKeys = DOMAIN pendingFeedback)
    /\ [](\A t, u \in Tasks :
             (registered[t] # << >> /\ registered[u] # << >> /\ t # u)
                 => registered[t][1] # registered[u][1])
    /\ []((feedbacks = << >> /\ now <= ExpiryHours) =>
             \A t \in Tasks :
                \A n \in 1..Len(registered[t]) :
                   registered[t][n] \in DOMAIN pendingFeedback)

\* Both tasks have registered; the entry of one came in after the snapshot
\* of the running pass, which has gone through its snapshot, and is there.
C27_Witness ==
    /\ \A t \in Tasks : registered[t] # << >>
    /\ PassOver
    /\ checker.pendingList # << >>
    /\ \E t \in Tasks :
          /\ registered[t][1] \notin SnapshotKeys
          /\ registered[t][1] \in DOMAIN pendingFeedback

\* C29: a RecordFeedback that returned the error of save() has left the
\* store as it was before the call.
C29_FailedSaveLeavesStoreUnchanged ==
    (fbCall.op = "RecordFeedback" /\ fbCall.err)
        => Len(feedbacks) = fbCall.size

\* What the code does: the record of a failed call is the last of the
\* store in memory, and the next call that succeeds writes it to the file
\* with its own.
C29_Witness ==
    /\ fbCall.op = "RecordFeedback"
    /\ ~fbCall.err
    /\ fbCall.failedOnce
    /\ fbCall.size = 1
    /\ Len(disk) = 2
    /\ Decode(disk)[1] = feedbacks[1]
    /\ feedbacks[1] # fbCall.fb

\* An alert that got past the namespace check and whose first post gave no
\* thread handle.
Unthreaded(a) ==
    /\ Accepted(a)
    /\ proc[a].pc \notin {"idle", "post"}
    /\ proc[a].slackThreadTS = 0

\* The part of C30 about the registry: every entry is under the handle of
\* its own message, which is not empty, and has a thread handle; an alert
\* without a thread handle has no entry and no push was made for it; and
\* the registry holds entries only where the loop runs.
C30_EntriesKeyedByHandle ==
    /\ \A k \in DOMAIN pendingFeedback :
          /\ k # 0
          /\ pendingFeedback[k].AnalysisTS = k
          /\ pendingFeedback[k].ThreadTS # 0
    /\ \A a \in Alerts :
          Unthreaded(a) =>
             /\ registered[a] = << >>
             /\ EntriesOf(a) = {}
             /\ CallsOf(a, {"SendAnalysisInThread", "UpdateMessage"}) = << >>
    /\ DOMAIN pendingFeedback # {} => checker.pc # "off"

\* C30: the registry is keyed as above, and an alert without a thread
\* handle, once ProcessAlert has returned with a notifier configured, has
\* had its analysis sent once as a message of its own: one SendAnalysis,
\* which posted a message or returned an error.
C30_NoThreadSentOnce ==
    /\ C30_EntriesKeyedByHandle
    /\ \A a \in Alerts :
          (Unthreaded(a) /\ Finished(a) /\ IsConfigured) =>
             /\ Len(CallsOf(a, {"SendAnalysis"})) = 1
             /\ \A i \in 1..Len(calls[a]) :
                   calls[a][i].op = "SendAnalysis" =>
                      calls[a][i].created \/ ~calls[a][i].ok

\* With a bot token and no webhook the first post failed; ProcessAlert has
\* returned, its one SendAnalysis reported no error and posted nothing.
C30_Witness ==
    \E a \in Alerts :
        /\ HasBotToken /\ ~HasWebhook
        /\ Unthreaded(a) /\ Finished(a)
        /\ CallsOf(a, {"SendAlert"})[1].ok = FALSE
        /\ Len(CallsOf(a, {"SendAnalysis"})) = 1
        /\ CallsOf(a, {"SendAnalysis"})[1].ok
        /\ ~CallsOf(a, {"SendAnalysis"})[1].created
        /\ EntriesOf(a) = {}

====
